---- MODULE Spec2Model ----
(***************************************************************************)
(* Model of the browser pool and the screenshot facade of                  *)
(* python/services/website_screenshot_service.py.                          *)
(*                                                                         *)
(* The program runs on one asyncio event loop: a task runs without         *)
(* interruption until it awaits something that really suspends (a browser  *)
(* launch, a page operation, a close, the runtime start/stop, or an        *)
(* asyncio.Lock that is taken or has waiters).  Every action below is one  *)
(* such atomic block of one task.  A block is written as a function from   *)
(* the state the task sees (the shared objects and the task's own locals)  *)
(* to the state it leaves; blocks are composed where the code runs on      *)
(* without suspending.  asyncio.Lock is modelled as CPython implements it: *)
(* a flag, a FIFO of waiters, and release() waking the first waiter.  The  *)
(* order in which suspended tasks resume is left open: every order the     *)
(* event loop can produce is among those explored.                         *)
(***************************************************************************)
EXTENDS Integers, Sequences, FiniteSets, TLC

\* ---------------------------------------------------------------- bounds
NumProcs == 3        \* concurrent tasks
MaxCalls == 3        \* calls the tasks make in total
MaxForeign == 1      \* browsers launched by callers themselves (not by the pool)
MaxPoolCalls == 3    \* calls of get_browser_pool and shutdown_browser_pool
NumSites == 4        \* URLs of the web a path is searched in
MaxLinks == 4        \* links on the pages of the web, all together
MaxDepth == 3        \* largest max_depth of a path search
PoolSize == 2        \* BrowserPool(pool_size=PoolSize), ScreenshotAPI(pool_size=PoolSize)
NumClients == 2      \* concurrent tasks where get_screenshot is called
MaxRequests == 2     \* calls the tasks make in total where get_screenshot is called
NumKeys == 1         \* distinct (url, width, height) requested
MaxCacheSize == 2    \* ScreenshotAPI(max_cache_size=MaxCacheSize)
MaxShots == 3        \* calls a single caller of get_screenshot makes, one after the other
NumOpts == 2         \* distinct (quality, format, full_page) requested
MaxFiles == 2        \* files cache_dir holds when the ScreenshotAPI is constructed
MaxStores == 2       \* _cache_screenshot calls made on one cache_dir

\* the max_cache_size of a ScreenshotAPI constructed without one (line 527)
DefaultMaxCacheSize == 100

Procs == 1..NumProcs
Clients == 1..NumClients
Keys == 1..NumKeys
Opts == 1..NumOpts

VARIABLES
    pool,          \* the BrowserPool object: browsers, playwright, _lock, _initialized, _shutdown
    poolLock,      \* the module's _pool_lock
    browserPool,   \* TRUE when the module's _browser_pool is set (it is then the object pool)
    cache,         \* the files of cache_dir, oldest modification first: <<[key, data], ...>>
    api,           \* the ScreenshotAPI object: max_cache_size
    env,           \* the browsers and the runtime: launched, closeCalls, closeRaised, pwStarts, pwStopCalls, pil, malformed
    task,          \* per task: where it is suspended (pc) and the locals of the calls it is in
    hist,          \* what has happened so far (used to state the claims)
    search,        \* the PathFinder object and the frames of its recursive search
    old            \* the pools _browser_pool has ceased to refer to that a get_screenshot call still uses, by id

vars == <<pool, poolLock, browserPool, cache, api, env, task, hist, search, old>>

\* no PathFinder has been constructed
NoSearch == [pc |-> "none"]

Range(s) == {s[k] : k \in 1..Len(s)}

RECURSIVE Remove(_, _)
Remove(s, x) ==
    IF s = <<>> THEN <<>>
    ELSE IF Head(s) = x THEN Tail(s)
    ELSE <<Head(s)>> \o Remove(Tail(s), x)

\* ------------------------------------------------------------ asyncio.Lock
NewLock == [locked |-> FALSE, waiters |-> <<>>, woken |-> {}]

\* Lock.acquire() returns without suspending
LockFree(l) == ~l.locked /\ l.waiters = <<>>

LockTake(l) == [l EXCEPT !.locked = TRUE]

\* Lock.acquire() appends a future and suspends
LockEnqueue(l, p) == [l EXCEPT !.waiters = Append(@, p)]

\* Lock.release(): clear the flag, set the first waiter's future
LockRelease(l) ==
    [locked |-> FALSE,
     waiters |-> l.waiters,
     woken |-> IF l.waiters # <<>> THEN l.woken \cup {Head(l.waiters)} ELSE l.woken]

\* the woken waiter resumes inside acquire(): leaves the queue, sets the flag
LockWake(l, p) ==
    [locked |-> TRUE, waiters |-> Remove(l.waiters, p), woken |-> l.woken \ {p}]

\* ------------------------------------------------------------------ values
Pending == [kind |-> "pending", h |-> 0]
Void == [kind |-> "void", h |-> 0]
NoBrowser == [kind |-> "none", h |-> 0]
Raised == [kind |-> "raised", h |-> 0]
Got(b) == [kind |-> "handle", h |-> b]

\* image data: the page of key k rendered with the options o (quality, format,
\* full_page), or the placeholder drawn for k; Failure stands for the
\* exception get_screenshot ends with when it returns nothing
NoData == [kind |-> "none", key |-> 0, opts |-> 0]
Shot(k, o) == [kind |-> "shot", key |-> k, opts |-> o]
Placeholder(k) == [kind |-> "placeholder", key |-> k, opts |-> 0]
Failure == [kind |-> "raised", key |-> 0, opts |-> 0]

\* b"": what a file holds that was opened for writing and not written
Empty == [kind |-> "empty", key |-> 0, opts |-> 0]

\* some of the bytes d, not all of them and not none: what a file holds whose
\* write failed when a part of d was on the disk
Part(d) == [d EXCEPT !.kind = "part"]

\* the answer of an HTTP handler: none yet
NoResponse == [status |-> 0, body |-> NoData]

\* take_screenshot_get once get_screenshot has returned the bytes out or has
\* raised (api/main.py, lines 195-210): a Response with the bytes, or
\* HTTPException(status_code=400)
TakeScreenshotGetResponse(out) ==
    IF out.kind = "raised" THEN [status |-> 400, body |-> NoData]
    ELSE [status |-> 200, body |-> out]

\* base64.b64encode(d).decode("utf-8") of the image data d
Base64(d) == [kind |-> "base64", key |-> d.key, opts |-> d.opts, of |-> d.kind]

\* take_screenshot of POST /screenshot once get_screenshot has returned the
\* bytes out or has raised (api/main.py, lines 150-161): a ScreenshotResponse
\* with the bytes in base64, or HTTPException(status_code=400)
TakeScreenshotResponse(out) ==
    IF out.kind = "raised" THEN [status |-> 400, body |-> NoData]
    ELSE [status |-> 200, body |-> Base64(out)]

\* WebsiteScreenshotService.__init__ (lines 264-267)
NoService == [browser |-> FALSE, playwright |-> FALSE]

\* BrowserPool(pool_size=PoolSize) (lines 54-61); id tells the BrowserPool
\* objects made by get_browser_pool apart (0: made by the caller itself)
NewPool ==
    [browsers |-> <<>>, playwright |-> FALSE, lock |-> NewLock,
     initialized |-> FALSE, shutdown |-> FALSE, pool_size |-> PoolSize, id |-> 0]

\* BrowserPool(pool_size=n), the i-th object get_browser_pool makes
BrowserPool(n, i) == [NewPool EXCEPT !.pool_size = n, !.id = i]

NewTask ==
    [pc |-> "idle",          \* "idle": between calls; "ret": a pool method has just returned
     op |-> "none",          \* the call the task's caller made
     fr |-> "none",          \* the BrowserPool method the task is in, or was in last
     arg |-> 0,              \* return_browser: browser
     slot |-> 0,             \* initialize: i
     waited |-> FALSE,       \* initialize: it had to wait for the lock
     toClose |-> <<>>,       \* shutdown: browsers_to_close still to close
     drained |-> <<>>,       \* shutdown: browsers_to_close as filled
     ret |-> Pending,        \* what the last call returned
     held |-> {},            \* browsers the caller holds
     seen |-> -1,            \* get_browser: len(self.browsers) when it looked (-1: it has not)
     sdAtCall |-> FALSE,     \* _shutdown when the pool method was entered
     sdRetAtCall |-> FALSE,  \* whether a shutdown() had returned when it was entered
     site |-> "caller",      \* where the pool method was called from
     key |-> 0,              \* get_screenshot: the cache key of (url, width, height)
     useCache |-> FALSE,     \* get_screenshot: use_cache
     opts |-> 0,             \* get_screenshot: quality, format, full_page of **kwargs
     hasPool |-> FALSE,      \* get_screenshot: pool is not None
     browser |-> 0,          \* get_screenshot: browser (0: None)
     shot |-> NoData,        \* get_screenshot: screenshot
     service |-> NoService,  \* get_screenshot: the WebsiteScreenshotService of the fallback
     out |-> NoData,         \* what get_screenshot returned
     acquired |-> FALSE,     \* get_screenshot has called get_browser_pool
     rendered |-> FALSE,     \* get_screenshot has had a page rendered
     stored |-> FALSE,       \* get_screenshot has called _cache_screenshot
     got |-> 0,              \* the browser pool.get_browser() gave get_screenshot (0: none)
     returns |-> 0,          \* pool.return_browser calls get_screenshot has made
     before |-> <<>>,        \* _cache_screenshot called alone: the files when it was called
     http |-> FALSE,         \* get_screenshot was called by take_screenshot_get
     resp |-> NoResponse,    \* what take_screenshot_get answered
     module |-> "services",  \* the module the caller's WebsiteScreenshotService is from
     failed |-> FALSE,       \* the render attempt raised: in the page, or at new_page()
     gets |-> 0,             \* pool.get_browser() calls get_screenshot has made
     renders |-> 0,          \* render attempts get_screenshot has made
     size |-> 0,             \* get_browser_pool: pool_size
     pret |-> 0,             \* the id of the pool get_browser_pool returned (0: none)
     post |-> FALSE,         \* get_screenshot was called by take_screenshot (POST /screenshot)
     asked |-> "none",       \* use_cache of the HTTP request: "true", "false", or "none" (null or absent)
     renderer |-> "none",    \* the renderer called: "with_browser" or "take_screenshot"
     page |-> "none",        \* the page of the render: "none", "open", "closed" or "close_raised"
     ref |-> 0]              \* get_screenshot: the id of the pool its local "pool" refers to (0: none yet)

\* ------------------------------------------------------- the state of a block
\* the local "pool" of task p's get_screenshot call refers to a pool that
\* _browser_pool referred to before the one it refers to now
Stale(p) == task[p].ref # 0 /\ task[p].ref # pool.id

\* the pools o with object x added under id i
Keep(o, i, x) == [j \in DOMAIN o \cup {i} |-> IF j = i THEN x ELSE o[j]]

\* the pools of o that a task of tk refers to
Held(o, tk) == [j \in {i \in DOMAIN o : \E q \in DOMAIN tk : tk[q].ref = i} |-> o[j]]

\* what task p sees: the shared objects and its own locals t; pool is the
\* BrowserPool object the task is using
World(p) ==
    [pool |-> IF Stale(p) THEN old[task[p].ref] ELSE pool,
     old |-> old, plock |-> poolLock, gpool |-> browserPool, cache |-> cache,
     api |-> api, env |-> env, hist |-> hist, t |-> task[p]]

\* the block's result ww, worked out once, becomes the state
Apply(p, ww) ==
    \E w \in {ww} :
    /\ pool' = IF Stale(p) THEN pool ELSE w.pool
    /\ old' = Held(IF Stale(p) THEN Keep(w.old, task[p].ref, w.pool) ELSE w.old,
                   [task EXCEPT ![p] = w.t])
    /\ poolLock' = w.plock
    /\ browserPool' = w.gpool
    /\ cache' = w.cache
    /\ api' = w.api
    /\ env' = w.env
    /\ hist' = w.hist
    /\ search' = search
    /\ task' = [task EXCEPT ![p] = w.t]

\* the block ends suspended at loc
At(w, loc) == [w EXCEPT !.t.pc = loc]

\* the pool method the task is in returns r
Ret(w, r) ==
    [w EXCEPT !.t.pc = "ret",
              !.t.ret = r,
              !.hist.getsDone = IF w.t.fr = "get_browser" /\ r.kind \in {"handle", "none"}
                                THEN @ + 1 ELSE @,
              !.hist.issued = IF w.t.fr = "get_browser" /\ r.kind = "handle"
                              THEN Append(@, r.h) ELSE @,
              !.hist.sdReturned = (@ \/ w.t.fr = "shutdown")]

\* the task enters pool method f with browser argument b
Enter(w, f, b) ==
    [w EXCEPT !.t.fr = f,
              !.t.arg = b,
              !.t.seen = -1,
              !.t.ret = Pending,
              !.t.sdAtCall = w.pool.shutdown,
              !.t.sdRetAtCall = w.hist.sdReturned]

\* browser.close() is called on b
CloseCalled(w, b) == [w EXCEPT !.env.closeCalls = @ \cup {b}]

\* browser.close() on b has returned, or raised
CloseDone(w, b, raised) ==
    [w EXCEPT !.env.closeRaised = IF raised THEN @ \cup {b} ELSE @]

\* -------------------------------------------------- BrowserPool.get_browser
\* slip: the browser is handed out but left in the free list
GetBrowserLocked_Peek(w) ==
    IF w.pool.browsers # <<>>
    THEN Ret([w EXCEPT !.pool.lock = LockRelease(@),
                       !.t.seen = Len(w.pool.browsers)],
             Got(Head(w.pool.browsers)))
    ELSE Ret([w EXCEPT !.pool.lock = LockRelease(@), !.t.seen = 0], NoBrowser)

\* slip: an empty free list makes the call wait for a release
GetBrowserLocked_Block(w) ==
    IF w.pool.browsers # <<>>
    THEN Ret([w EXCEPT !.pool.browsers = Tail(@),
                       !.pool.lock = LockRelease(@),
                       !.t.seen = Len(w.pool.browsers)],
             Got(Head(w.pool.browsers)))
    ELSE At([w EXCEPT !.pool.lock = LockRelease(@), !.t.seen = 0], "gb_wait")

\* get_browser(), inside "async with self._lock" (lines 130-139)
GetBrowserLocked(w) ==
    IF w.pool.browsers # <<>>
    THEN Ret([w EXCEPT !.pool.browsers = Tail(@),
                       !.pool.lock = LockRelease(@),
                       !.t.seen = Len(w.pool.browsers)],
             Got(Head(w.pool.browsers)))
    ELSE Ret([w EXCEPT !.pool.lock = LockRelease(@), !.t.seen = 0], NoBrowser)

\* get_browser() from the shutdown check on (lines 127-139)
GetBrowserCheck(w, p) ==
    IF w.pool.shutdown THEN Ret(w, NoBrowser)
    ELSE IF LockFree(w.pool.lock)
    THEN GetBrowserLocked([w EXCEPT !.pool.lock = LockTake(@)])
    ELSE At([w EXCEPT !.pool.lock = LockEnqueue(@, p)], "gb_wait")

\* --------------------------------------------------- BrowserPool.initialize
\* initialize() returns, or raises, to the method that called it: to the
\* task's caller, or into get_browser (lines 124-127)
InitializeReturns(w, p, raised) ==
    IF w.t.fr = "get_browser" /\ ~raised THEN GetBrowserCheck(w, p)
    ELSE Ret(w, IF raised THEN Raised ELSE Void)

\* slip: _initialized is not looked at again inside the lock
InitializeLocked_NoRecheck(w, p) == At(w, "init_start")

\* initialize(), inside the lock, from the second _initialized check on (lines 69-76)
InitializeLocked(w, p) ==
    IF w.pool.initialized
    THEN InitializeReturns([w EXCEPT !.pool.lock = LockRelease(@)], p, FALSE)
    ELSE At(w, "init_start")

\* initialize() from its first line (lines 65-68)
InitializeEnter(w, p) ==
    IF w.pool.initialized THEN InitializeReturns(w, p, FALSE)
    ELSE IF LockFree(w.pool.lock)
    THEN InitializeLocked([w EXCEPT !.pool.lock = LockTake(@)], p)
    ELSE At([w EXCEPT !.pool.lock = LockEnqueue(@, p), !.t.waited = TRUE], "init_wait")

\* initialize(): the for loop is over (lines 113-116), the lock is released
InitializeFinish(w, p) ==
    InitializeReturns([w EXCEPT !.pool.initialized = TRUE,
                                !.pool.lock = LockRelease(@)], p, FALSE)

\* initialize(): async_playwright().start() has returned (line 76), the loop begins
InitializeStarted(w, p) ==
    IF w.pool.pool_size = 0
    THEN InitializeFinish([w EXCEPT !.pool.playwright = TRUE, !.env.pwStarts = @ + 1], p)
    ELSE At([w EXCEPT !.pool.playwright = TRUE, !.env.pwStarts = @ + 1,
                      !.t.slot = 0], "init_launch")

\* initialize(): async_playwright().start() has raised (lines 118-120)
InitializeFailed(w, p) ==
    InitializeReturns([w EXCEPT !.pool.lock = LockRelease(@)], p, TRUE)

\* initialize(): the loop moves on from slot i (line 79, then 113-116)
InitializeNext(w, p) ==
    IF w.t.slot + 1 < w.pool.pool_size THEN At([w EXCEPT !.t.slot = @ + 1], "init_launch")
    ELSE InitializeFinish(w, p)

\* initialize(): a launch has returned a browser (lines 95, 104)
InitializeLaunched(w, p) ==
    InitializeNext([w EXCEPT !.env.launched = @ + 1,
                             !.pool.browsers = Append(@, w.env.launched + 1)], p)

\* get_browser() from its first line (lines 124-125)
GetBrowserEnter(w, p) ==
    IF ~w.pool.initialized THEN InitializeEnter(w, p)
    ELSE GetBrowserCheck(w, p)

\* ----------------------------------------------- BrowserPool.return_browser
\* slip: <= for <
ReturnAppends_OffByOne(w) == Len(w.pool.browsers) <= w.pool.pool_size

\* return_browser(), line 151: TRUE when the browser is appended
ReturnAppends(w) == Len(w.pool.browsers) < w.pool.pool_size

\* return_browser(), inside the lock (lines 150-160)
ReturnBrowserLocked(w) ==
    IF ReturnAppends(w)
    THEN Ret([w EXCEPT !.pool.browsers = Append(@, w.t.arg),
                       !.pool.lock = LockRelease(@)], Void)
    ELSE At(CloseCalled(w, w.t.arg), "rb_close_full")

\* slip: the shutdown flag is not looked at
ReturnBrowserEnter_NoFlag(w, p) ==
    IF LockFree(w.pool.lock)
    THEN ReturnBrowserLocked([w EXCEPT !.pool.lock = LockTake(@)])
    ELSE At([w EXCEPT !.pool.lock = LockEnqueue(@, p)], "rb_wait")

\* return_browser() from its first line (lines 143-150)
ReturnBrowserEnter(w, p) ==
    IF w.pool.shutdown THEN At(CloseCalled(w, w.t.arg), "rb_close_sd")
    ELSE IF LockFree(w.pool.lock)
    THEN ReturnBrowserLocked([w EXCEPT !.pool.lock = LockTake(@)])
    ELSE At([w EXCEPT !.pool.lock = LockEnqueue(@, p)], "rb_wait")

\* a return_browser(b) call is made
ReturnCalled(w, b) ==
    [w EXCEPT !.hist.returnCalls = @ + 1,
              !.hist.retAfterSd = IF w.pool.shutdown THEN @ \cup {b} ELSE @]

\* ----------------------------------------------------- BrowserPool.shutdown
\* slip: a close() that raises ends the loop
ShutdownRest_Abort(rest, raised) == IF raised THEN <<>> ELSE rest

\* shutdown(): what is still to close after one close() returned or raised
\* (lines 183-187: the error is logged and the loop goes on)
ShutdownRest(rest, raised) == rest

\* shutdown(): the loop over browsers_to_close with rest still to close, then
\* the stop of playwright, then the release of the lock (lines 183-196)
ShutdownLoop(w, rest) ==
    IF rest # <<>>
    THEN At(CloseCalled([w EXCEPT !.t.toClose = rest], Head(rest)), "sd_close")
    ELSE IF w.pool.playwright
    THEN At([w EXCEPT !.t.toClose = rest, !.env.pwStopCalls = @ + 1], "sd_stop")
    ELSE Ret([w EXCEPT !.t.toClose = rest, !.pool.lock = LockRelease(@)], Void)

\* shutdown(), inside the lock: the free list is drained (lines 171-183)
ShutdownLocked(w) ==
    ShutdownLoop([w EXCEPT !.pool.browsers = <<>>, !.t.drained = w.pool.browsers],
                 w.pool.browsers)

\* slip: no early return when the flag is already set
ShutdownEnter_NoGuard(w, p) ==
    IF LockFree(w.pool.lock)
    THEN ShutdownLocked([w EXCEPT !.pool.shutdown = TRUE, !.pool.lock = LockTake(@)])
    ELSE At([w EXCEPT !.pool.shutdown = TRUE, !.pool.lock = LockEnqueue(@, p)], "sd_wait")

\* shutdown() from its first line (lines 164-170)
ShutdownEnter(w, p) ==
    IF w.pool.shutdown THEN Ret(w, Void)
    ELSE IF LockFree(w.pool.lock)
    THEN ShutdownLocked([w EXCEPT !.pool.shutdown = TRUE, !.pool.lock = LockTake(@)])
    ELSE At([w EXCEPT !.pool.shutdown = TRUE, !.pool.lock = LockEnqueue(@, p)], "sd_wait")

\* ------------------------------------------------------- the screenshot cache
\* the urls and the widths and heights the cache key is computed for
Urls == {<<"a">>, <<"a", "_", "1">>}
Dims == {1, 11}

DigitChars == <<"0", "1", "2", "3", "4", "5", "6", "7", "8", "9">>

\* f"{n}" of a natural number n, as the sequence of its characters
RECURSIVE Digits(_)
Digits(n) ==
    IF n < 10 THEN <<DigitChars[n + 1]>>
    ELSE Digits(n \div 10) \o <<DigitChars[(n % 10) + 1]>>

\* hashlib.md5(s).hexdigest(): the digest of s; two strings among those
\* explored have the same digest only when they are the same string
Md5(s) == [md5 |-> s]

\* slip: the parts are joined without the separators
GetCacheKey_Joined(url, width, height) == Md5(url \o Digits(width) \o Digits(height))

\* _get_cache_key (lines 669-673): md5 of f"{url}_{width}_{height}"
GetCacheKey(url, width, height) ==
    Md5(url \o <<"_">> \o Digits(width) \o <<"_">> \o Digits(height))

\* _get_cached_screenshot (lines 675-688): the file's content, or None
GetCachedScreenshot(c, k) ==
    IF \E i \in 1..Len(c) : c[i].key = k
    THEN (CHOOSE e \in Range(c) : e.key = k).data
    ELSE NoData

\* open(cache_file, "wb").write (lines 695-696): the file becomes the newest
WriteCacheFile(c, k, d) ==
    Append(SelectSeq(c, LAMBDA e : e.key # k), [key |-> k, data |-> d])

\* cache_files[: -m] of n files sorted by mtime, m being max_cache_size: how
\* many files the slice holds (line 706; the slice [: -0] is empty)
SliceLen(n, m) ==
    IF m = 0 THEN 0
    ELSE IF n > m THEN n - m ELSE 0

\* slip: the slice is cache_files[: -1] whatever max_cache_size is, so the
\* sweep leaves the newest file only
CleanupCache_KeepNewest(c, m) ==
    IF Len(c) > m THEN SubSeq(c, Len(c), Len(c)) ELSE c

\* _cleanup_cache (lines 702-710) with max_cache_size = m
CleanupCache(c, m) ==
    IF Len(c) > m THEN SubSeq(c, SliceLen(Len(c), m) + 1, Len(c)) ELSE c

\* _cache_screenshot (lines 690-700) with max_cache_size = m
CacheScreenshot(c, k, d, m) == CleanupCache(WriteCacheFile(c, k, d), m)

\* _get_cached_screenshot (lines 675-688) when the operations io fail:
\* cache_file.exists() is outside the try and lets the OSError of stat()
\* through; what open() or read() raises is caught and None returned
ReadCache(c, k, io) ==
    IF "stat" \in io THEN Failure
    ELSE IF "read" \in io THEN NoData
    ELSE GetCachedScreenshot(c, k)

\* _cache_screenshot (lines 690-710) when the operations io fail: what open()
\* raises is caught and nothing is written or swept; after open(cache_file,
\* "wb") the key has a file, the newest, and it is empty; when f.write raises
\* (lines 695-696) the file stays, empty ("write": no byte was written) or
\* with a part of the bytes ("write_part"), and the sweep of line 698 is not
\* reached; with more files than
\* max_cache_size the sweep sorts them by x.stat().st_mtime (line 705), and
\* what stat() raises is caught in _cache_screenshot with nothing swept; what
\* an unlink() of the sweep raises is caught and the file stays
StoreCache(c, k, d, m, io) ==
    IF "open" \in io THEN c
    ELSE IF "write" \in io THEN WriteCacheFile(c, k, Empty)
    ELSE IF "write_part" \in io THEN WriteCacheFile(c, k, Part(d))
    ELSE IF Len(WriteCacheFile(c, k, d)) > m /\ io \cap {"stat", "unlink"} # {}
    THEN WriteCacheFile(c, k, d)
    ELSE CacheScreenshot(c, k, d, m)

\* ------------------------------------------------ ScreenshotAPI.get_screenshot
\* a block of a pool method that ended in its return goes on in k
Then(ww, p, k(_, _)) ==
    CHOOSE r \in {IF w.t.pc = "ret" THEN k(w, p) ELSE w : w \in {ww}} : TRUE

\* get_screenshot returns t.out, or raises when t.out is Failure; its locals
\* are gone, the fallback service stays as the call left it; what the call
\* was asked and what it did is kept for the claims
GetScreenshotReturns(w, p) ==
    [w EXCEPT !.t = [NewTask EXCEPT !.op = w.t.op,
                                    !.held = w.t.held,
                                    !.key = w.t.key,
                                    !.useCache = w.t.useCache,
                                    !.opts = w.t.opts,
                                    !.service = w.t.service,
                                    !.out = w.t.out,
                                    !.acquired = w.t.acquired,
                                    !.rendered = w.t.rendered,
                                    !.stored = w.t.stored,
                                    !.failed = w.t.failed,
                                    !.gets = w.t.gets,
                                    !.renders = w.t.renders,
                                    !.http = w.t.http,
                                    !.post = w.t.post,
                                    !.asked = w.t.asked,
                                    !.resp = IF w.t.http
                                             THEN TakeScreenshotGetResponse(w.t.out)
                                             ELSE IF w.t.post
                                             THEN TakeScreenshotResponse(w.t.out)
                                             ELSE NoResponse]]

\* slip: the finally clause does not return the browser
GetScreenshotFinally_NoReturn(w, p) == GetScreenshotReturns(w, p)

\* the finally clause (lines 606-621); the pool's return_browser does not raise
GetScreenshotFinally(w, p) ==
    IF w.t.browser # 0 /\ w.t.hasPool
    THEN Then(ReturnBrowserEnter(
                  Enter(ReturnCalled([w EXCEPT !.t.site = "finally",
                                               !.t.returns = @ + 1], w.t.browser),
                        "return_browser", w.t.browser), p),
              p, GetScreenshotReturns)
    ELSE GetScreenshotReturns(w, p)

\* the except clause (lines 603-605): _generate_placeholder draws with PIL
\* and raises when PIL cannot be used (lines 712-741)
GetScreenshotExcept(w, p) ==
    GetScreenshotFinally(
        [w EXCEPT !.t.out = IF w.env.pil THEN Placeholder(w.t.key) ELSE Failure], p)

\* slip: the screenshot is cached whatever use_cache is
GetScreenshotStore_Always(w, p) ==
    GetScreenshotFinally(
        [w EXCEPT !.cache = CacheScreenshot(@, w.t.key, w.t.shot, w.api.max_cache_size),
                  !.t.stored = TRUE,
                  !.t.out = w.t.shot], p)

\* slip: a key that has a file is not written again
GetScreenshotStore_KeepFirst(w, p) ==
    GetScreenshotFinally(
        [w EXCEPT !.cache = IF w.t.useCache /\ GetCachedScreenshot(@, w.t.key) = NoData
                            THEN StoreCache(@, w.t.key, w.t.shot,
                                            w.api.max_cache_size, w.env.io)
                            ELSE @,
                  !.t.stored = w.t.useCache,
                  !.t.out = w.t.shot], p)

\* lines 598-601: the screenshot is cached and returned
GetScreenshotStore(w, p) ==
    GetScreenshotFinally(
        [w EXCEPT !.cache = IF w.t.useCache
                            THEN StoreCache(@, w.t.key, w.t.shot,
                                            w.api.max_cache_size, w.env.io)
                            ELSE @,
                  !.t.stored = w.t.useCache,
                  !.t.out = w.t.shot], p)

\* slip: browser is not set to None after it was returned
GetScreenshotReturned_NoClear(w, p) == GetScreenshotStore(w, p)

\* line 596, after pool.return_browser(browser) has returned
GetScreenshotReturned(w, p) == GetScreenshotStore([w EXCEPT !.t.browser = 0], p)

\* line 595
GetScreenshotReturnBrowser(w, p) ==
    Then(ReturnBrowserEnter(
             Enter(ReturnCalled([w EXCEPT !.t.site = "try", !.t.returns = @ + 1],
                                w.t.browser),
                   "return_browser", w.t.browser), p),
         p, GetScreenshotReturned)

\* lines 575-593, after pool.get_browser() has returned or raised: the
\* fallback service is made and started, or the pooled browser is used
GetScreenshotGot(w, p) ==
    IF w.t.ret.kind = "raised" THEN GetScreenshotExcept(w, p)
    ELSE IF w.t.ret.kind = "none" THEN At([w EXCEPT !.t.service = NoService], "fallback")
    ELSE At([w EXCEPT !.t.browser = w.t.ret.h, !.t.got = w.t.ret.h], "with_browser")

\* line 575, after get_browser_pool has returned the pool
GetScreenshotGetBrowser(w, p) ==
    Then(GetBrowserEnter(Enter([w EXCEPT !.t.hasPool = TRUE, !.t.site = "try",
                                         !.t.ref = w.pool.id,
                                         !.t.gets = @ + 1],
                               "get_browser", 0), p),
         p, GetScreenshotGot)

\* -------------------------------------------------------------- get_browser_pool
\* get_browser_pool called by the task's caller returns _browser_pool, or
\* raises the exception of initialize()
GetBrowserPoolReturns(w, p) ==
    LET raised == w.t.ret.kind = "raised"
    IN  [w EXCEPT !.t.pc = "idle",
                  !.t.ret = IF raised THEN Raised ELSE Void,
                  !.t.pret = IF raised THEN 0 ELSE w.pool.id,
                  !.hist.epoch = Append(@, [size |-> w.t.size, id |-> w.pool.id,
                                            raised |-> raised])]

\* what the handler of GET /health answers
Health(status) == [kind |-> status, key |-> 0, opts |-> 0]

\* health_check of GET /health (api/main.py, lines 317-334) after
\* get_browser_pool has returned or raised: pool.health_check() (lines
\* 206-214) reads the pool without awaiting anything
HealthCheckReturns(w, p) ==
    [GetBrowserPoolReturns(w, p) EXCEPT
        !.t.out = IF w.t.ret.kind = "raised" THEN Health("degraded")
                  ELSE Health("healthy")]

\* slip: _pool_lock is released by the return of line 238 only, and stays
\* taken when initialize() raises
GetBrowserPoolLeaves_HeldOnRaise(w, p) ==
    LET left == IF w.t.ret.kind = "raised" THEN w
                ELSE [w EXCEPT !.plock = LockRelease(@)]
    IN  IF w.t.op = "get_browser_pool" THEN GetBrowserPoolReturns(left, p)
        ELSE IF w.t.op = "health_check" THEN HealthCheckReturns(left, p)
        ELSE IF w.t.ret.kind = "raised" THEN GetScreenshotExcept(left, p)
        ELSE GetScreenshotGetBrowser(left, p)

\* "async with _pool_lock" is left: by the return of line 238, or by the
\* exception of initialize()
GetBrowserPoolLeaves(w, p) ==
    IF w.t.op = "get_browser_pool"
    THEN GetBrowserPoolReturns([w EXCEPT !.plock = LockRelease(@)], p)
    ELSE IF w.t.op = "health_check"
    THEN HealthCheckReturns([w EXCEPT !.plock = LockRelease(@)], p)
    ELSE IF w.t.ret.kind = "raised"
    THEN GetScreenshotExcept([w EXCEPT !.plock = LockRelease(@)], p)
    ELSE GetScreenshotGetBrowser([w EXCEPT !.plock = LockRelease(@)], p)

\* what is kept of a pool _browser_pool ceases to refer to
Retired(pl) ==
    [id |-> pl.id, pool_size |-> pl.pool_size, shutdown |-> pl.shutdown,
     free |-> Len(pl.browsers), locked |-> ~LockFree(pl.lock)]

\* _browser_pool = BrowserPool(pool_size=pool_size), then
\* await _browser_pool.initialize() (lines 228-229, 236-237)
GetBrowserPoolCreates(w, p) ==
    Then(InitializeEnter(
             Enter([w EXCEPT !.gpool = TRUE,
                             !.pool = BrowserPool(w.t.size, w.hist.created + 1),
                             !.old = IF w.pool.id # 0 THEN Keep(@, w.pool.id, w.pool)
                                     ELSE @,
                             !.hist.created = @ + 1,
                             !.hist.retired = IF w.gpool THEN @ \cup {Retired(w.pool)}
                                              ELSE @,
                             !.t.site = "get_browser_pool"],
                   "initialize", 0), p),
         p, GetBrowserPoolLeaves)

\* slip: the pool is replaced without being shut down
GetBrowserPoolLocked_NoShutdown(w, p) ==
    IF ~w.gpool \/ w.pool.pool_size # w.t.size THEN GetBrowserPoolCreates(w, p)
    ELSE GetBrowserPoolLeaves([w EXCEPT !.t.ret = Void], p)

\* get_browser_pool(pool_size), inside the lock (lines 227-238): there is
\* no pool; or the pool is of another size and is shut down first; or the
\* pool is returned as it is
GetBrowserPoolLocked(w, p) ==
    IF ~w.gpool THEN GetBrowserPoolCreates(w, p)
    ELSE IF w.pool.pool_size # w.t.size
    THEN Then(ShutdownEnter(Enter([w EXCEPT !.t.site = "replace"], "shutdown", 0), p),
              p, GetBrowserPoolCreates)
    ELSE GetBrowserPoolLeaves([w EXCEPT !.t.ret = Void], p)

\* get_browser_pool(pool_size) from its first line (line 226)
GetBrowserPoolEnter(w, p) ==
    IF LockFree(w.plock)
    THEN GetBrowserPoolLocked([w EXCEPT !.plock = LockTake(@)], p)
    ELSE At([w EXCEPT !.plock = LockEnqueue(@, p)], "gbp_wait")

\* ----------------------------------------------------- shutdown_browser_pool
\* "async with _pool_lock" is left and shutdown_browser_pool returns
ShutdownBrowserPoolLeaves(w, p) ==
    [w EXCEPT !.plock = LockRelease(@), !.t.pc = "idle", !.t.ret = Void]

\* slip: _browser_pool keeps the pool that was shut down
ShutdownBrowserPoolClears_Keep(w, p) == ShutdownBrowserPoolLeaves(w, p)

\* _browser_pool = None (line 248), after shutdown() has returned
ShutdownBrowserPoolClears(w, p) ==
    ShutdownBrowserPoolLeaves([w EXCEPT !.gpool = FALSE,
                                        !.hist.retired = @ \cup {Retired(w.pool)},
                                        !.hist.epoch = <<>>], p)

\* shutdown_browser_pool(), inside the lock (lines 246-248)
ShutdownBrowserPoolLocked(w, p) ==
    IF w.gpool
    THEN Then(ShutdownEnter(Enter([w EXCEPT !.t.site = "shutdown_browser_pool"],
                                  "shutdown", 0), p),
              p, ShutdownBrowserPoolClears)
    ELSE ShutdownBrowserPoolLeaves(w, p)

\* shutdown_browser_pool() from its first line (line 245)
ShutdownBrowserPoolEnter(w, p) ==
    IF LockFree(w.plock)
    THEN ShutdownBrowserPoolLocked([w EXCEPT !.plock = LockTake(@)], p)
    ELSE At([w EXCEPT !.plock = LockEnqueue(@, p)], "sbp_wait")

\* slip: the cache is not looked up
GetScreenshotEnter_NoLookup(w, p) ==
    GetBrowserPoolEnter([w EXCEPT !.t.acquired = TRUE], p)

\* slip: a cached file is used only when it was rendered with the options asked for
GetScreenshotEnter_ByOpts(w, p) ==
    IF /\ w.t.useCache
       /\ GetCachedScreenshot(w.cache, w.t.key) # NoData
       /\ GetCachedScreenshot(w.cache, w.t.key).opts = w.t.opts
    THEN GetScreenshotReturns(
             [w EXCEPT !.t.out = GetCachedScreenshot(w.cache, w.t.key)], p)
    ELSE GetBrowserPoolEnter([w EXCEPT !.t.acquired = TRUE], p)

\* get_screenshot from its first line (lines 564-574); the cache is looked up
\* before the try, so what the lookup raises ends the call; `if cached` takes
\* the b"" of an empty file for a miss, as it does None
GetScreenshotEnter(w, p) ==
    IF w.t.useCache /\ ReadCache(w.cache, w.t.key, w.env.io) \notin {NoData, Empty}
    THEN GetScreenshotReturns(
             [w EXCEPT !.t.out = ReadCache(w.cache, w.t.key, w.env.io)], p)
    ELSE GetBrowserPoolEnter([w EXCEPT !.t.acquired = TRUE], p)

\* ------------------------------------------------------ where a method returns
\* a pool method called by the task's caller returns to it; the caller keeps
\* the browser get_browser gave it
ReturnsToCaller(w, p) ==
    [w EXCEPT !.t.pc = "idle",
              !.t.held = IF w.t.ret.kind = "handle" THEN @ \cup {w.t.ret.h} ELSE @]

\* the block goes on in the code that called the pool method
Finish(ww, p) ==
    CHOOSE r \in {
    IF w.t.pc # "ret" THEN w
    ELSE IF w.t.site = "caller" THEN ReturnsToCaller(w, p)
    ELSE IF w.t.site = "get_browser_pool" THEN GetBrowserPoolLeaves(w, p)
    ELSE IF w.t.site = "replace" THEN GetBrowserPoolCreates(w, p)
    ELSE IF w.t.site = "shutdown_browser_pool" THEN ShutdownBrowserPoolClears(w, p)
    ELSE IF w.t.site = "finally" THEN GetScreenshotReturns(w, p)
    ELSE IF w.t.fr = "get_browser" THEN GetScreenshotGot(w, p)
    ELSE GetScreenshotReturned(w, p) : w \in {ww}} : TRUE

\* ------------------------------------------------------------------- state
NewEnv(pil) ==
    [launched |-> 0,       \* Browser objects launched for or given to the pool: 1..launched
     closeCalls |-> {},    \* browsers on which close() has been called
     closeRaised |-> {},   \* browsers whose close() raised
     pwStarts |-> 0,       \* async_playwright().start() calls of the pool that returned
     pwStopCalls |-> 0,    \* playwright.stop() calls on the pool's runtime
     pil |-> pil,          \* whether PIL can draw on this installation
     malformed |-> {},     \* the keys of the URLs page.goto() rejects as malformed
     io |-> {},            \* the operations on cache_dir that fail (IoFaults)
     lifespan |-> FALSE]   \* whether the app of api/main.py is run with its lifespan

NewHist ==
    [calls |-> 0,          \* calls made so far
     last |-> 0,           \* the task that made the most recent call
     sdReturned |-> FALSE, \* some shutdown() has returned
     foreign |-> {},       \* browsers launched by callers themselves
     getsDone |-> 0,       \* get_browser calls that returned
     issued |-> <<>>,      \* browsers get_browser returned, in order
     returnCalls |-> 0,    \* return_browser calls made
     retAfterSd |-> {},    \* browsers given to return_browser with the flag set
     created |-> 0,        \* BrowserPool objects get_browser_pool has made
     retired |-> {},       \* the pools _browser_pool has ceased to refer to, as they were then
     epoch |-> <<>>]       \* the get_browser_pool calls that ended since _browser_pool was last None

\* ScreenshotAPI.__init__ (lines 538-541); the ScreenshotAPI of
\* website_screenshot_service.py (lines 246-258) has self.service besides,
\* None at first: made tells whether it has been set, service is the
\* WebsiteScreenshotService it then refers to
NewApi(m) == [max_cache_size |-> m, made |-> FALSE, service |-> NoService]

\* a BrowserPool(pool_size=PoolSize) has been constructed (lines 54-61)
Init ==
    /\ pool = NewPool
    /\ poolLock = NewLock
    /\ browserPool = FALSE
    /\ cache = <<>>
    /\ api = NewApi(MaxCacheSize)
    /\ env = NewEnv(TRUE)
    /\ task = [p \in Procs |-> NewTask]
    /\ hist = NewHist
    /\ search = NoSearch
    /\ old = <<>>

\* the module is imported and a ScreenshotAPI(pool_size=PoolSize,
\* max_cache_size=MaxCacheSize) constructed on an empty cache_dir
\* (lines 218-219, 538-541)
InitApi ==
    /\ pool = NewPool
    /\ poolLock = NewLock
    /\ browserPool = FALSE
    /\ cache = <<>>
    /\ api = NewApi(MaxCacheSize)
    /\ env \in {NewEnv(b) : b \in BOOLEAN}
    /\ task = [p \in Procs |-> NewTask]
    /\ hist = NewHist
    /\ search = NoSearch
    /\ old = <<>>

\* a ScreenshotAPI is constructed with some max_cache_size on an empty
\* cache_dir (ScreenshotAPI.__init__, lines 524-541), and one task calls it
InitSeq ==
    /\ pool = NewPool
    /\ poolLock = NewLock
    /\ browserPool = FALSE
    /\ cache = <<>>
    /\ api \in {NewApi(m) : m \in 0..MaxCacheSize}
    /\ env \in {NewEnv(b) : b \in BOOLEAN}
    /\ task = [p \in Procs |-> NewTask]
    /\ hist = NewHist
    /\ search = NoSearch
    /\ old = <<>>

\* the keys _get_cache_key gives the requests
CacheKeys == {GetCacheKey(u, x, y) : u \in Urls, x \in Dims, y \in Dims}

\* what a cache_dir can hold when the ScreenshotAPI is constructed on it
\* (line 541: mkdir(exist_ok=True)): files of earlier runs, whatever
\* max_cache_size those had, no two under one key
CacheDirs ==
    {c \in UNION {[1..n -> {[key |-> k, data |-> Shot(k, 1)] : k \in CacheKeys}] :
                     n \in 0..MaxFiles} :
        \A i, j \in 1..Len(c) : c[i].key = c[j].key => i = j}

\* a ScreenshotAPI is constructed with some max_cache_size on some cache_dir
InitCache ==
    /\ pool = NewPool
    /\ poolLock = NewLock
    /\ browserPool = FALSE
    /\ cache \in CacheDirs
    /\ api \in {NewApi(m) : m \in 0..MaxCacheSize}
    /\ env = NewEnv(TRUE)
    /\ task = [p \in Procs |-> NewTask]
    /\ hist = NewHist
    /\ search = NoSearch
    /\ old = <<>>

\* task p may make a call; the tasks are numbered in the order in which they
\* make their first call
CanCall(p) ==
    /\ task[p].pc = "idle"
    /\ hist.calls < MaxCalls
    /\ \A q \in 1..(p - 1) : task[q].op # "none"

\* what task p sees when it makes call o
StartCall(p, o) ==
    [World(p) EXCEPT !.t = [NewTask EXCEPT !.op = o, !.held = task[p].held],
                     !.hist.calls = @ + 1,
                     !.hist.last = p]

\* task p is suspended at loc
Suspended(p, loc) == task[p].pc = loc

\* task p waits at loc for lock l, and release() has woken it
Woken(p, loc, l) == task[p].pc = loc /\ p \in l.woken

\* ----------------------------------------------------- actions: initialize
\* await pool.initialize()
CallInitialize(p) ==
    /\ CanCall(p)
    /\ Apply(p, Finish(InitializeEnter(Enter(StartCall(p, "initialize"),
                                             "initialize", 0), p), p))

\* initialize() gets the lock it waited for (line 68)
InitializeWake(p) ==
    /\ Woken(p, "init_wait", World(p).pool.lock)
    /\ Apply(p, Finish(InitializeLocked(
                           [World(p) EXCEPT !.pool.lock = LockWake(@, p)], p), p))

\* async_playwright().start() returns or raises (lines 76-79, 118-120)
InitializeStart(p) ==
    /\ Suspended(p, "init_start")
    /\ \E ok \in BOOLEAN :
         Apply(p, Finish(IF ok THEN InitializeStarted(World(p), p)
                         ELSE InitializeFailed(World(p), p), p))

\* playwright.chromium.launch() returns or raises (lines 81-99)
InitializeLaunch(p) ==
    /\ Suspended(p, "init_launch")
    /\ \E ok \in BOOLEAN :
         Apply(p, Finish(IF ok THEN InitializeLaunched(World(p), p)
                         ELSE At(World(p), "init_fallback"), p))

\* playwright.firefox.launch() returns or raises (lines 100-111)
InitializeFallback(p) ==
    /\ Suspended(p, "init_fallback")
    /\ \E ok \in BOOLEAN :
         Apply(p, Finish(IF ok THEN InitializeLaunched(World(p), p)
                         ELSE InitializeNext(World(p), p), p))

\* ---------------------------------------------------- actions: get_browser
\* await pool.get_browser()
CallGetBrowser(p) ==
    /\ CanCall(p)
    /\ Apply(p, Finish(GetBrowserEnter(Enter(StartCall(p, "get_browser"),
                                             "get_browser", 0), p), p))

\* get_browser() gets the lock it waited for (line 130)
GetBrowserWake(p) ==
    /\ Woken(p, "gb_wait", World(p).pool.lock)
    /\ Apply(p, Finish(GetBrowserLocked(
                           [World(p) EXCEPT !.pool.lock = LockWake(@, p)]), p))

\* ------------------------------------------------- actions: return_browser
\* the browsers task p can give to return_browser: one it holds, or one it
\* launches itself
Returnable(p) ==
    task[p].held \cup (IF Cardinality(hist.foreign) < MaxForeign
                       THEN {env.launched + 1} ELSE {})

\* the caller gives up b, launching it first if it is its own
GiveUp(w, b) ==
    IF b \in w.t.held THEN [w EXCEPT !.t.held = @ \ {b}]
    ELSE [w EXCEPT !.env.launched = @ + 1, !.hist.foreign = @ \cup {b}]

\* await pool.return_browser(b)
CallReturnBrowser(p) ==
    /\ CanCall(p)
    /\ \E b \in Returnable(p) :
         Apply(p, Finish(ReturnBrowserEnter(
                             Enter(ReturnCalled(GiveUp(StartCall(p, "return_browser"), b), b),
                                   "return_browser", b), p), p))

\* return_browser() gets the lock it waited for (line 150)
ReturnBrowserWake(p) ==
    /\ Woken(p, "rb_wait", World(p).pool.lock)
    /\ Apply(p, Finish(ReturnBrowserLocked(
                           [World(p) EXCEPT !.pool.lock = LockWake(@, p)]), p))

\* browser.close() returns or raises on the full-pool branch (lines 156-160)
ReturnBrowserClosed(p) ==
    /\ Suspended(p, "rb_close_full")
    /\ \E raised \in BOOLEAN :
         Apply(p, Finish(Ret([CloseDone(World(p), task[p].arg, raised)
                                  EXCEPT !.pool.lock = LockRelease(@)], Void), p))

\* browser.close() returns or raises on the shut-down branch (lines 144-148)
ReturnBrowserClosedShutdown(p) ==
    /\ Suspended(p, "rb_close_sd")
    /\ \E raised \in BOOLEAN :
         Apply(p, Finish(Ret(CloseDone(World(p), task[p].arg, raised), Void), p))

\* ------------------------------------------------------- actions: shutdown
\* await pool.shutdown()
CallShutdown(p) ==
    /\ CanCall(p)
    /\ Apply(p, Finish(ShutdownEnter(Enter(StartCall(p, "shutdown"),
                                           "shutdown", 0), p), p))

\* shutdown() gets the lock it waited for (line 170)
ShutdownWake(p) ==
    /\ Woken(p, "sd_wait", World(p).pool.lock)
    /\ Apply(p, Finish(ShutdownLocked(
                           [World(p) EXCEPT !.pool.lock = LockWake(@, p)]), p))

\* browser.close() returns or raises in the loop of shutdown() (lines 183-187)
ShutdownClosed(p) ==
    /\ Suspended(p, "sd_close")
    /\ \E raised \in BOOLEAN :
         Apply(p, Finish(ShutdownLoop(
                             CloseDone(World(p), Head(task[p].toClose), raised),
                             ShutdownRest(Tail(task[p].toClose), raised)), p))

\* playwright.stop() returns or raises (lines 190-196)
ShutdownStopped(p) ==
    /\ Suspended(p, "sd_stop")
    /\ Apply(p, Finish(Ret([World(p) EXCEPT !.pool.lock = LockRelease(@)], Void), p))

\* ------------------------------------------------- actions: get_screenshot
\* task p may make a call where get_screenshot is called
CanRequest(p) == p \in Clients /\ hist.calls < MaxRequests /\ CanCall(p)

\* what task p sees when it calls get_screenshot for key k with use_cache =
\* uc and the options o
GetScreenshotCall(p, k, uc, o) ==
    [StartCall(p, "get_screenshot") EXCEPT !.t.size = PoolSize,
                                           !.t.key = k,
                                           !.t.useCache = uc,
                                           !.t.opts = o]

\* await api.get_screenshot(url, width=width, height=height, use_cache=uc),
\* the options left at their defaults
CallGetScreenshot(p) ==
    /\ CanRequest(p)
    /\ \E k \in Keys, uc \in BOOLEAN :
         Apply(p, GetScreenshotEnter(GetScreenshotCall(p, k, uc, 1), p))

\* get_browser_pool() gets the _pool_lock it waited for (line 226)
GetBrowserPoolWake(p) ==
    /\ Woken(p, "gbp_wait", poolLock)
    /\ Apply(p, GetBrowserPoolLocked(
                    [World(p) EXCEPT !.plock = LockWake(@, p)], p))

\* what a page can come to (lines 631-658, 358-400): page.goto() raises on a
\* malformed URL; on another URL the page is captured, or something raises
PageOutcomes(p) ==
    IF task[p].key \in env.malformed THEN {"error"} ELSE {"shot", "error"}

\* _take_screenshot_with_browser (lines 623-663) ends: with the screenshot;
\* with the placeholder, the page having failed; or with the exception of
\* browser.new_page() or of _generate_placeholder
TakeScreenshotWithBrowser(p) ==
    /\ Suspended(p, "with_browser")
    /\ \E outcome \in PageOutcomes(p) \cup {"raised"} :
         LET w == [World(p) EXCEPT !.t.rendered = TRUE,
                                   !.t.renders = @ + 1,
                                   !.t.failed = (outcome # "shot")]
         IN  Apply(p, IF outcome = "shot"
                      THEN GetScreenshotReturnBrowser(
                               [w EXCEPT !.t.shot = Shot(task[p].key, task[p].opts)], p)
                      ELSE IF outcome = "error" /\ env.pil
                      THEN GetScreenshotReturnBrowser(
                               [w EXCEPT !.t.shot = Placeholder(task[p].key)], p)
                      ELSE GetScreenshotExcept(w, p))

\* ------------------------------ actions: the fallback service of a call
\* (lines 582-587), a WebsiteScreenshotService of the call's own; one action
\* for each thing it waits for
\* where a call is in its fallback
FallbackSites == {"fallback", "fb_launch", "fb_firefox", "fb_page", "fb_render",
                  "fb_close", "fb_stop"}

InFallback(p) == task[p].pc \in FallbackSites

\* service.start(): async_playwright().start() returns, or raises (lines
\* 278, 307-308)
FallbackStart(p) ==
    /\ Suspended(p, "fallback")
    /\ \E ok \in BOOLEAN :
         Apply(p, IF ok THEN [World(p) EXCEPT !.t.service.playwright = TRUE,
                                              !.t.pc = "fb_launch"]
                  ELSE GetScreenshotExcept(World(p), p))

\* service.start(): playwright.chromium.launch() returns and take_screenshot
\* calls browser.new_page(); or it raises and firefox is tried (lines 279-295)
FallbackLaunch(p) ==
    /\ Suspended(p, "fb_launch")
    /\ \E ok \in BOOLEAN :
         Apply(p, IF ok THEN [World(p) EXCEPT !.t.service.browser = TRUE,
                                              !.t.pc = "fb_page"]
                  ELSE At(World(p), "fb_firefox"))

\* service.start(): playwright.firefox.launch() returns, or raises (lines
\* 296-305)
FallbackFirefox(p) ==
    /\ Suspended(p, "fb_firefox")
    /\ \E ok \in BOOLEAN :
         Apply(p, IF ok THEN [World(p) EXCEPT !.t.service.browser = TRUE,
                                              !.t.pc = "fb_page"]
                  ELSE GetScreenshotExcept(World(p), p))

\* service.take_screenshot(): browser.new_page() returns, or raises outside
\* the try (line 355) and stop() is not reached
FallbackNewPage(p) ==
    /\ Suspended(p, "fb_page")
    /\ \E ok \in BOOLEAN :
         Apply(p, IF ok THEN At(World(p), "fb_render")
                  ELSE GetScreenshotExcept([World(p) EXCEPT !.t.rendered = TRUE,
                                                            !.t.renders = @ + 1,
                                                            !.t.failed = TRUE], p))

\* service.take_screenshot() from its try on (lines 357-406): it ends with
\* the screenshot, or with the placeholder of _generate_placeholder_sync,
\* which does not raise; page.close() is guarded; then stop() awaits
\* browser.close()
FallbackRender(p) ==
    /\ Suspended(p, "fb_render")
    /\ \E outcome \in PageOutcomes(p) :
         Apply(p, [World(p) EXCEPT
                      !.t.rendered = TRUE,
                      !.t.renders = @ + 1,
                      !.t.failed = (outcome = "error"),
                      !.t.shot = IF outcome = "shot"
                                 THEN Shot(task[p].key, task[p].opts)
                                 ELSE Placeholder(task[p].key),
                      !.t.pc = "fb_close"])

\* service.stop() (lines 310-313): browser.close() returns, self.browser =
\* None and playwright.stop() is awaited; or browser.close() raises
FallbackClose(p) ==
    /\ Suspended(p, "fb_close")
    /\ \E ok \in BOOLEAN :
         Apply(p, IF ok THEN [World(p) EXCEPT !.t.service.browser = FALSE,
                                              !.t.pc = "fb_stop"]
                  ELSE GetScreenshotExcept(World(p), p))

\* service.stop() (lines 314-317): playwright.stop() returns, self.playwright
\* = None and the screenshot is cached (lines 589-591); or it raises
FallbackStop(p) ==
    /\ Suspended(p, "fb_stop")
    /\ \E ok \in BOOLEAN :
         Apply(p, IF ok THEN GetScreenshotStore(
                                 [World(p) EXCEPT !.t.service = NoService], p)
                  ELSE GetScreenshotExcept(World(p), p))

\* a step of the fallback of task p
FallbackService(p) ==
    \/ FallbackStart(p)
    \/ FallbackLaunch(p)
    \/ FallbackFirefox(p)
    \/ FallbackNewPage(p)
    \/ FallbackRender(p)
    \/ FallbackClose(p)
    \/ FallbackStop(p)

\* a task that has the module's pool calls it (tests/test_browser_pool.py,
\* lines 24 and 63-72)
WorkerGetBrowser(p) == browserPool /\ CanRequest(p) /\ CallGetBrowser(p)

WorkerReturnBrowser(p) == browserPool /\ CanRequest(p) /\ CallReturnBrowser(p)

\* ------------------------------------- actions: one caller of get_screenshot
\* await api.get_screenshot(url, width=width, height=height, use_cache=uc,
\* quality=.., format=.., full_page=..) by a task that is the only one
SeqGetScreenshot(p) ==
    /\ task[p].pc = "idle"
    /\ hist.calls < MaxShots
    /\ \E k \in Keys, uc \in BOOLEAN, o \in Opts :
         Apply(p, GetScreenshotEnter(GetScreenshotCall(p, k, uc, o), p))

\* a ScreenshotAPI on an empty cache_dir where one operation fails, or every
\* one, or none, and one task calls it: "stat" is cache_file.exists() and the
\* sort key of the sweep, "read" the open(..., "rb") or the read, "open" the
\* open(..., "wb"), "write" and "write_part" the f.write after it, "unlink"
\* the deletions of the sweep
IoFaults ==
    {{}, {"stat"}, {"read"}, {"open"}, {"write"}, {"write_part"}, {"unlink"},
     {"stat", "read", "open", "write", "write_part", "unlink"}}

InitIo ==
    /\ pool = NewPool
    /\ poolLock = NewLock
    /\ browserPool = FALSE
    /\ cache = <<>>
    /\ api = NewApi(MaxCacheSize)
    /\ env \in {[NewEnv(TRUE) EXCEPT !.io = f] : f \in IoFaults}
    /\ task = [p \in Procs |-> NewTask]
    /\ hist = NewHist
    /\ search = NoSearch
    /\ old = <<>>

\* ------------------------------------------------- actions: the cache alone
\* api._cache_screenshot(url, width, height, screenshot)
CacheStore(p) ==
    /\ task[p].pc = "idle"
    /\ hist.calls < MaxStores
    /\ \E u \in Urls, x \in Dims, y \in Dims :
         LET k == GetCacheKey(u, x, y)
             w == StartCall(p, "_cache_screenshot")
         IN  Apply(p, [w EXCEPT !.cache = StoreCache(@, k, Shot(k, 1),
                                                     w.api.max_cache_size,
                                                     w.env.io),
                                !.t.key = k,
                                !.t.shot = Shot(k, 1),
                                !.t.stored = TRUE,
                                !.t.before = w.cache])

\* api._get_cached_screenshot(url, width, height)
CacheLookup(p) ==
    /\ task[p].pc = "idle"
    /\ hist.calls < MaxStores
    /\ \E u \in Urls, x \in Dims, y \in Dims :
         LET k == GetCacheKey(u, x, y)
             w == StartCall(p, "_get_cached_screenshot")
         IN  Apply(p, [w EXCEPT !.t.key = k,
                                !.t.out = ReadCache(w.cache, k, w.env.io)])

\* ------------------------------------------------------------ specifications
\* tasks calling one BrowserPool
Next ==
    \E p \in Procs :
        \/ CallInitialize(p)
        \/ InitializeWake(p)
        \/ InitializeStart(p)
        \/ InitializeLaunch(p)
        \/ InitializeFallback(p)
        \/ CallGetBrowser(p)
        \/ GetBrowserWake(p)
        \/ CallReturnBrowser(p)
        \/ ReturnBrowserWake(p)
        \/ ReturnBrowserClosed(p)
        \/ ReturnBrowserClosedShutdown(p)
        \/ CallShutdown(p)
        \/ ShutdownWake(p)
        \/ ShutdownClosed(p)
        \/ ShutdownStopped(p)

Spec == Init /\ [][Next]_vars

\* tasks calling get_screenshot and the module's pool
NextApi ==
    \E p \in Procs :
        \/ CallGetScreenshot(p)
        \/ GetBrowserPoolWake(p)
        \/ InitializeWake(p)
        \/ InitializeStart(p)
        \/ InitializeLaunch(p)
        \/ InitializeFallback(p)
        \/ GetBrowserWake(p)
        \/ TakeScreenshotWithBrowser(p)
        \/ FallbackService(p)
        \/ WorkerGetBrowser(p)
        \/ WorkerReturnBrowser(p)
        \/ ReturnBrowserWake(p)
        \/ ReturnBrowserClosed(p)

SpecApi == InitApi /\ [][NextApi]_vars

\* one task calling get_screenshot, each call after the one before has returned
NextSeq ==
    \/ SeqGetScreenshot(1)
    \/ InitializeStart(1)
    \/ InitializeLaunch(1)
    \/ InitializeFallback(1)
    \/ TakeScreenshotWithBrowser(1)
    \/ FallbackService(1)

SpecSeq == InitSeq /\ [][NextSeq]_vars

\* the same caller on a cache_dir whose operations fail
SpecIo == InitIo /\ [][NextSeq]_vars

\* the cache methods of a ScreenshotAPI called on a cache_dir
NextCache ==
    \/ CacheStore(1)
    \/ CacheLookup(1)

SpecCache == InitCache /\ [][NextCache]_vars

\* the same on a cache_dir where one operation fails, or every one
InitCacheIo ==
    /\ pool = NewPool
    /\ poolLock = NewLock
    /\ browserPool = FALSE
    /\ cache \in CacheDirs
    /\ api \in {NewApi(m) : m \in 0..MaxCacheSize}
    /\ env \in {[NewEnv(TRUE) EXCEPT !.io = f] : f \in IoFaults \ {{}}}
    /\ task = [p \in Procs |-> NewTask]
    /\ hist = NewHist
    /\ search = NoSearch
    /\ old = <<>>

SpecCacheIo == InitCacheIo /\ [][NextCache]_vars

TypeOK ==
    /\ Len(pool.browsers) <= PoolSize + MaxForeign
    /\ env.launched <= PoolSize + MaxForeign
    /\ \A p \in Procs : task[p].held \subseteq 1..env.launched


\* ------------------------------------------- actions: GET /screenshot
\* lifespan() of api/main.py (lines 35-50) has passed its startup: the task
\* that runs it has awaited get_browser_pool(screenshot_pool_size), which did
\* not raise, and has not begun shutdown_browser_pool()
StartedUp(a) ==
    task[a].op = "get_browser_pool" /\ task[a].pc = "idle" /\ task[a].ret # Raised

\* requests reach the handlers: of an app that is up, or of handlers called
\* without the app's lifespan
Serving == ~env.lifespan \/ \E a \in Procs : StartedUp(a)

\* the handler take_screenshot_get (api/main.py, lines 164-210) serves a
\* request: it makes a ScreenshotAPI and awaits get_screenshot with the url,
\* width, height and use_cache of the query as they are
TakeScreenshotGet(p) ==
    /\ Serving
    /\ task[p].pc = "idle"
    /\ hist.calls < MaxShots
    /\ \E k \in Keys, uc \in BOOLEAN, o \in Opts :
         LET w == GetScreenshotCall(p, k, uc, o)
         IN  Apply(p, GetScreenshotEnter(
                          [w EXCEPT !.t.http = TRUE,
                                    !.t.asked = IF uc THEN "true" ELSE "false"], p))

\* Python's "v or d" for v the use_cache of a ScreenshotRequest (true, false
\* or None) and d a bool: v when v is truthy, else d
PyOr(v, d) == IF v = "true" THEN TRUE ELSE d

\* the handler take_screenshot of POST /screenshot (api/main.py, lines
\* 128-161) serves a request whose body has use_cache = v: it awaits
\* get_screenshot with use_cache = request.use_cache or True (line 146)
TakeScreenshotPost(p) ==
    /\ Serving
    /\ task[p].pc = "idle"
    /\ hist.calls < MaxShots
    /\ \E k \in Keys, v \in {"true", "false", "none"}, o \in Opts :
         LET w == GetScreenshotCall(p, k, PyOr(v, TRUE), o)
         IN  Apply(p, GetScreenshotEnter([w EXCEPT !.t.post = TRUE, !.t.asked = v], p))

\* lifespan() up to its yield (lines 37-46): the cache_dir is made and task a
\* awaits get_browser_pool(screenshot_pool_size); when that raises the app
\* does not come up
LifespanStartup(a) ==
    /\ env.lifespan
    /\ task[a].op = "none"
    /\ Apply(a, GetBrowserPoolEnter(
                    [StartCall(a, "get_browser_pool") EXCEPT !.t.size = PoolSize], a))

\* lifespan() after its yield (line 50), once the requests have been
\* answered: task a awaits shutdown_browser_pool()
LifespanShutdown(a) ==
    /\ env.lifespan
    /\ StartedUp(a)
    /\ \A q \in Procs : task[q].pc = "idle"
    /\ Apply(a, ShutdownBrowserPoolEnter(StartCall(a, "shutdown_browser_pool"), a))

\* the module has been imported and cache_dir is empty; the app is about to
\* be run with its lifespan, or its handlers are called without it; the URLs
\* of some keys are malformed
InitHttp ==
    /\ pool = NewPool
    /\ poolLock = NewLock
    /\ browserPool = FALSE
    /\ cache = <<>>
    /\ api \in {NewApi(m) : m \in 0..MaxCacheSize}
    /\ env \in {[NewEnv(b) EXCEPT !.malformed = m, !.lifespan = l] :
                   b \in BOOLEAN, m \in SUBSET Keys, l \in BOOLEAN}
    /\ task = [p \in Procs |-> NewTask]
    /\ hist = NewHist
    /\ search = NoSearch
    /\ old = <<>>

\* the app's lifespan run by task 2 and one client of GET /screenshot and
\* POST /screenshot, task 1, each request after the answer to the one before
NextHttp ==
    \/ LifespanStartup(2)
    \/ LifespanShutdown(2)
    \/ TakeScreenshotGet(1)
    \/ TakeScreenshotPost(1)
    \/ \E p \in {1, 2} : InitializeStart(p)
    \/ \E p \in {1, 2} : InitializeLaunch(p)
    \/ \E p \in {1, 2} : InitializeFallback(p)
    \/ TakeScreenshotWithBrowser(1)
    \/ FallbackService(1)
    \/ ShutdownClosed(2)
    \/ ShutdownStopped(2)

SpecHttp == InitHttp /\ [][NextHttp]_vars

\* ------------------------------- actions: a WebsiteScreenshotService used alone
\* the two modules that define WebsiteScreenshotService:
\* services/website_screenshot_service.py and website_screenshot_service.py
Modules == {"services", "legacy"}

\* the caller's block "async with WebsiteScreenshotService() as service" ends
\* with the exception of __aenter__, or after __aexit__, with what its body
\* (service.take_screenshot) or __aexit__ came to
BareLeaves(w, r) == [w EXCEPT !.t.pc = "idle", !.t.out = r]

\* async with WebsiteScreenshotService() as service:
\*     await service.take_screenshot(url, width=.., height=..)
\* of test_screenshot_service.py (lines 104-108), with the service of module m:
\* __aenter__ calls start() (lines 270-272, 276-278)
BareEnter(p) ==
    /\ task[p].pc = "idle"
    /\ hist.calls < MaxShots
    /\ \E k \in Keys, m \in Modules :
         Apply(p, [StartCall(p, "take_screenshot") EXCEPT !.t.key = k,
                                                          !.t.opts = 1,
                                                          !.t.module = m,
                                                          !.t.pc = "svc_start"])

\* start(): async_playwright().start() returns, or raises (lines 278, 307-308)
BareStart(p) ==
    /\ Suspended(p, "svc_start")
    /\ \E ok \in BOOLEAN :
         Apply(p, IF ok THEN [World(p) EXCEPT !.t.service.playwright = TRUE,
                                              !.t.pc = "svc_launch"]
                  ELSE BareLeaves(World(p), Failure))

\* start(): playwright.chromium.launch() returns, and take_screenshot calls
\* browser.new_page(); or it raises, which the services module answers with a
\* firefox launch (lines 279-300) and the other module lets through
BareLaunch(p) ==
    /\ Suspended(p, "svc_launch")
    /\ \E ok \in BOOLEAN :
         Apply(p, IF ok THEN [World(p) EXCEPT !.t.service.browser = TRUE,
                                              !.t.pc = "svc_page"]
                  ELSE IF task[p].module = "services" THEN At(World(p), "svc_fallback")
                  ELSE BareLeaves(World(p), Failure))

\* start() of the services module: playwright.firefox.launch() returns or raises
\* (lines 296-305)
BareFallback(p) ==
    /\ Suspended(p, "svc_fallback")
    /\ \E ok \in BOOLEAN :
         Apply(p, IF ok THEN [World(p) EXCEPT !.t.service.browser = TRUE,
                                              !.t.pc = "svc_page"]
                  ELSE BareLeaves(World(p), Failure))

\* take_screenshot: browser.new_page() returns, or raises outside the try
\* (line 355) and __aexit__ calls stop()
BareNewPage(p) ==
    /\ Suspended(p, "svc_page")
    /\ \E ok \in BOOLEAN :
         Apply(p, IF ok THEN At(World(p), "svc_render")
                  ELSE [World(p) EXCEPT !.t.shot = Failure, !.t.pc = "svc_stop"])

\* what take_screenshot of module m returns for key k and options o when the
\* page fails or not, and page.close() raises or not.  services (lines
\* 395-406): a failure gives the placeholder of _generate_placeholder_sync,
\* which does not raise, and page.close() is guarded.  The other module
\* (website_screenshot_service.py, lines 162-166): the exception is raised
\* again, and so is that of page.close()
TakeScreenshotResult(m, failed, closeRaised, k, o) ==
    IF m = "services" THEN (IF failed THEN Placeholder(k) ELSE Shot(k, o))
    ELSE IF failed \/ closeRaised THEN Failure
    ELSE Shot(k, o)

\* take_screenshot from the try on: the page is captured or fails, and
\* page.close() returns or raises; then __aexit__ calls stop()
BareRender(p) ==
    /\ Suspended(p, "svc_render")
    /\ \E outcome \in PageOutcomes(p), closeRaised \in BOOLEAN :
         Apply(p, [World(p) EXCEPT
                      !.t.rendered = TRUE,
                      !.t.renders = @ + 1,
                      !.t.failed = (outcome = "error"),
                      !.t.shot = TakeScreenshotResult(task[p].module, outcome = "error",
                                                      closeRaised, task[p].key,
                                                      task[p].opts),
                      !.t.pc = "svc_stop"])

\* stop() (lines 310-313): browser.close() returns and self.browser = None,
\* then playwright.stop() is awaited; or browser.close() raises and the block
\* ends with that
BareClose(p) ==
    /\ Suspended(p, "svc_stop")
    /\ \E ok \in BOOLEAN :
         Apply(p, IF ok THEN [World(p) EXCEPT !.t.service.browser = FALSE,
                                              !.t.pc = "svc_stopping"]
                  ELSE BareLeaves(World(p), Failure))

\* stop() (lines 314-317): playwright.stop() returns, self.playwright = None
\* and the block ends with what take_screenshot came to; or it raises
BareStop(p) ==
    /\ Suspended(p, "svc_stopping")
    /\ \E ok \in BOOLEAN :
         Apply(p, IF ok THEN BareLeaves([World(p) EXCEPT !.t.service = NoService],
                                        task[p].shot)
                  ELSE BareLeaves(World(p), Failure))

\* the URLs of some keys do not load
InitBare ==
    /\ pool = NewPool
    /\ poolLock = NewLock
    /\ browserPool = FALSE
    /\ cache = <<>>
    /\ api = NewApi(MaxCacheSize)
    /\ env \in {[NewEnv(TRUE) EXCEPT !.malformed = m] : m \in SUBSET Keys}
    /\ task = [p \in Procs |-> NewTask]
    /\ hist = NewHist
    /\ search = NoSearch
    /\ old = <<>>

\* one task using a WebsiteScreenshotService directly
NextBare ==
    \/ BareEnter(1)
    \/ BareStart(1)
    \/ BareLaunch(1)
    \/ BareFallback(1)
    \/ BareNewPage(1)
    \/ BareRender(1)
    \/ BareClose(1)
    \/ BareStop(1)

SpecBare == InitBare /\ [][NextBare]_vars

\* ------------------------------------------ actions: the module's global pool
\* the pool sizes get_browser_pool is asked for
Sizes == {PoolSize - 1, PoolSize}

\* task p may call get_browser_pool or shutdown_browser_pool
CanCallGlobal(p) ==
    /\ p \in Clients
    /\ task[p].pc = "idle"
    /\ hist.calls < MaxPoolCalls
    /\ \A q \in 1..(p - 1) : task[q].op # "none"

\* await get_browser_pool(pool_size=n)
CallGetBrowserPool(p) ==
    /\ CanCallGlobal(p)
    /\ \E n \in Sizes :
         Apply(p, GetBrowserPoolEnter(
                      [StartCall(p, "get_browser_pool") EXCEPT !.t.size = n], p))

\* await shutdown_browser_pool()
CallShutdownBrowserPool(p) ==
    /\ CanCallGlobal(p)
    /\ Apply(p, ShutdownBrowserPoolEnter(StartCall(p, "shutdown_browser_pool"), p))

\* shutdown_browser_pool() gets the _pool_lock it waited for (line 245)
ShutdownBrowserPoolWake(p) ==
    /\ Woken(p, "sbp_wait", poolLock)
    /\ Apply(p, ShutdownBrowserPoolLocked(
                    [World(p) EXCEPT !.plock = LockWake(@, p)], p))

\* the module has been imported: _browser_pool is None (lines 217-218)
InitGlobal ==
    /\ pool = NewPool
    /\ poolLock = NewLock
    /\ browserPool = FALSE
    /\ cache = <<>>
    /\ api = NewApi(MaxCacheSize)
    /\ env = NewEnv(TRUE)
    /\ task = [p \in Procs |-> NewTask]
    /\ hist = NewHist
    /\ search = NoSearch
    /\ old = <<>>

\* tasks calling get_browser_pool and shutdown_browser_pool
NextGlobal ==
    \E p \in Procs :
        \/ CallGetBrowserPool(p)
        \/ GetBrowserPoolWake(p)
        \/ CallShutdownBrowserPool(p)
        \/ ShutdownBrowserPoolWake(p)
        \/ InitializeStart(p)
        \/ InitializeLaunch(p)
        \/ InitializeFallback(p)
        \/ ShutdownClosed(p)
        \/ ShutdownStopped(p)

SpecGlobal == InitGlobal /\ [][NextGlobal]_vars

\* ------------------------------- actions: get_screenshot calls gathered at once
\* the pool get_browser_pool(PoolSize) returned, n of its launches having
\* succeeded (lines 76-116, 228-229)
InitializedPool(n) ==
    [BrowserPool(PoolSize, 1) EXCEPT !.browsers = [i \in 1..n |-> i],
                                     !.playwright = TRUE,
                                     !.initialized = TRUE]

\* tests/test_browser_pool.py, lines 24-50: get_browser_pool(pool_size) has
\* returned, the cache_dir holds nothing for the urls, and one task for each
\* url is about to call get_screenshot(url, width=300, height=200) of a
\* ScreenshotAPI(pool_size=2), whose max_cache_size is the default (line 36)
InitLoad ==
    /\ \E n \in 0..PoolSize :
         /\ pool = InitializedPool(n)
         /\ \E b \in BOOLEAN :
              env = [NewEnv(b) EXCEPT !.launched = n, !.pwStarts = 1]
    /\ poolLock = NewLock
    /\ browserPool = TRUE
    /\ cache = <<>>
    /\ api = NewApi(DefaultMaxCacheSize)
    /\ task = [p \in Procs |-> NewTask]
    /\ hist = [NewHist EXCEPT !.created = 1]
    /\ search = NoSearch
    /\ old = <<>>

\* every task of the gather has made its call
AllStarted == \A p \in Procs : task[p].op # "none"

\* asyncio.gather (line 50): the tasks run in the order of the list, each up
\* to its first await of the browser, before anything the browsers do is
\* looked at; task p asks for the url of key p
GatherStart(p) ==
    /\ task[p].op = "none"
    /\ \A q \in 1..(p - 1) : task[q].op # "none"
    /\ Apply(p, GetScreenshotEnter(GetScreenshotCall(p, p, TRUE, 1), p))

\* the pooled render of task p ends
GatherRender(p) == AllStarted /\ TakeScreenshotWithBrowser(p)

\* the fallback of task p ends
GatherFallback(p) == AllStarted /\ FallbackService(p)

NextLoad ==
    \E p \in Procs :
        \/ GatherStart(p)
        \/ GatherRender(p)
        \/ GatherFallback(p)

SpecLoad == InitLoad /\ [][NextLoad]_vars

\* ------------------------------------------------------------ PathFinder
\* (src/python/services/sitepage_link_finder.py; the generator of
\* /autonomous-path in src/python/api/main.py repeats the same search and
\* yields events)
\* URLs are compared for equality only, so they are named 1, 2, ... in the
\* order in which the search meets them: start_url is 1, end_url is 1 or 2
Sites == 1..NumSites

\* found_path is None
NoPath == <<>>

\* the next URL name not met so far
NextFresh(known) ==
    IF Sites \ known = {} THEN {}
    ELSE {CHOOSE u \in Sites \ known : \A v \in Sites \ known : u <= v}

\* SiteLinkFinder(url) raised (the page could not be fetched), or gave a page.
\* The list main_text_links + other_links of line 296 is chosen by the web one
\* link at a time, as the loop comes to read it: links holds the links read so
\* far and whole tells that the list has no more
FetchFailed == [ok |-> FALSE, links |-> <<>>, whole |-> TRUE]
Fetched == [ok |-> TRUE, links |-> <<>>, whole |-> FALSE]

\* PathFinder.__init__ (lines 230-245) and, for mode "stream", the locals of
\* event_stream (api/main.py, lines 263-267)
PathFinder(mode, start_url, end_url, max_depth) ==
    [pc |-> "new",
     mode |-> mode,
     start_url |-> start_url,
     end_url |-> end_url,
     max_depth |-> max_depth,
     visited_urls |-> {},
     found_path |-> NoPath,
     call |-> [url |-> start_url, path |-> <<>>, depth |-> 0],
     stack |-> <<>>,         \* the frames suspended in the loop of line 296
     web |-> <<>>,           \* what SiteLinkFinder gave for each URL fetched
     fetches |-> [u \in Sites |-> 0],
     visits |-> {},          \* <<url, depth>> of each URL marked visited
     \* the events event_stream has yielded, and the path of its found event
     events |-> [visit |-> 0, found |-> 0, not_found |-> 0, error |-> 0,
                 path |-> NoPath],
     result |-> NoPath]

\* the URLs met so far
Known(s) ==
    {s.start_url, s.end_url}
        \cup UNION {Range(s.web[u].links) : u \in DOMAIN s.web}

\* the search is over: find_path returns found_path (line 261), the generator
\* event_stream is exhausted
SearchOver(s) == [s EXCEPT !.pc = "done", !.result = s.found_path]

\* the outermost call has returned: find_path returns; event_stream yields
\* not_found when nothing was found and waits to be resumed (api/main.py,
\* lines 312-313), else it is exhausted
SearchEnds(s) ==
    IF s.mode = "stream" /\ s.found_path = NoPath
    THEN [s EXCEPT !.pc = "not_found", !.events.not_found = @ + 1]
    ELSE SearchOver(s)

\* a call of _search_from_url returns to the loop that made it
SearchReturns(s) ==
    IF s.stack = <<>> THEN SearchEnds(s) ELSE [s EXCEPT !.pc = "loop"]

\* SiteLinkFinder(current_url) (line 288): the page the web has for the URL
SiteLinkFinder(s, u, page) ==
    [s EXCEPT !.fetches[u] = @ + 1,
              !.web = [v \in DOMAIN s.web \cup {u} |->
                          IF v \in DOMAIN s.web THEN s.web[v] ELSE page]]

\* the pages SiteLinkFinder(u) can give: what it gave before, else any
SiteAnswers(s, u) ==
    IF u \in DOMAIN s.web THEN {s.web[u]} ELSE {FetchFailed, Fetched}

\* the number of links read so far on all pages
RECURSIVE SumLinks(_, _)
SumLinks(web, us) ==
    IF us = {} THEN 0
    ELSE LET u == CHOOSE v \in us : TRUE
         IN  Len(web[u].links) + SumLinks(web, us \ {u})

LinksRead(s) == SumLinks(s.web, DOMAIN s.web)

\* what the list of the page of u holds at position i: "end" past its last
\* link, else a link, which is one read before or any URL
LinkAt(s, u, i) ==
    LET page == s.web[u]
    IN  IF i <= Len(page.links) THEN {page.links[i]}
        ELSE IF page.whole \/ LinksRead(s) >= MaxLinks THEN {0}
        ELSE {0} \cup Known(s) \cup NextFresh(Known(s))

\* the web after position i of the list of the page of u was read as l
Read(s, u, i, l) ==
    IF i <= Len(s.web[u].links) \/ s.web[u].whole THEN s
    ELSE IF l = 0 THEN [s EXCEPT !.web[u].whole = TRUE]
    ELSE [s EXCEPT !.web[u].links = Append(@, l)]

\* the depth test of line 275
TooDeep_Inclusive(s) == s.call.depth > s.max_depth
TooDeep(s) == s.call.depth >= s.max_depth

\* current_url is marked as visited at the depth of the call (line 283)
MarkVisited_Skip(s, u) == [s EXCEPT !.visits = @ \cup {<<u, s.call.depth>>}]
MarkVisited(s, u) ==
    [s EXCEPT !.visited_urls = @ \cup {u},
              !.visits = @ \cup {<<u, s.call.depth>>}]

\* _search_from_url(current_url, current_path, depth) up to its loop
\* (lines 263-296)
SearchFromUrlBody(s, page) ==
    LET u == s.call.url
        new_path == s.call.path \o <<u>>
        marked == MarkVisited(s, u)
        fetched == SiteLinkFinder(marked, u, page)
    IN  IF TooDeep(s) \/ s.found_path # NoPath THEN SearchReturns(s)
        ELSE IF u \in s.visited_urls THEN SearchReturns(s)
        ELSE IF u = s.end_url
             THEN SearchReturns([marked EXCEPT !.found_path = new_path])
        ELSE IF ~page.ok THEN SearchReturns(fetched)
        ELSE [fetched EXCEPT
                 !.pc = "loop",
                 !.stack = <<[url |-> u, path |-> new_path, depth |-> s.call.depth,
                              i |-> 1]>> \o @]

\* _search of event_stream (api/main.py) from its first line to its first
\* yield (lines 270-283): it returns, or marks current_url as visited and
\* yields the visit event
SearchBody(s) ==
    IF TooDeep(s) \/ s.found_path # NoPath THEN SearchReturns(s)
    ELSE IF s.call.url \in s.visited_urls THEN SearchReturns(s)
    ELSE [MarkVisited(s, s.call.url) EXCEPT !.pc = "visit",
                                            !.events.visit = @ + 1]

\* _search resumed after its visit event (api/main.py, lines 284-307): on
\* end_url it sets found and path and yields the found event; else it fetches
\* the page and starts on its links, or yields the error event
SearchVisitedBody(s, page) ==
    LET u == s.call.url
        new_path == s.call.path \o <<u>>
        fetched == SiteLinkFinder(s, u, page)
    IN  IF u = s.end_url
        THEN [s EXCEPT !.pc = "found",
                       !.found_path = new_path,
                       !.events.found = @ + 1,
                       !.events.path = new_path]
        ELSE IF ~page.ok
        THEN [fetched EXCEPT !.pc = "error", !.events.error = @ + 1]
        ELSE [fetched EXCEPT
                 !.pc = "loop",
                 !.stack = <<[url |-> u, path |-> new_path, depth |-> s.call.depth,
                              i |-> 1]>> \o @]

\* one pass of the loop of lines 296-300 (api/main.py, lines 293-297) in the
\* innermost frame, the list
\* holding l at the loop's position (0: the list is over): the loop ends,
\* breaks, skips a visited link or calls _search_from_url on the link
SearchLoopBody(s, l) ==
    LET f == Head(s.stack)
        r == Read(s, f.url, f.i, l)
    IN  IF s.found_path # NoPath THEN SearchReturns([s EXCEPT !.stack = Tail(@)])
        ELSE IF l = 0 THEN SearchReturns([r EXCEPT !.stack = Tail(@)])
        ELSE IF l \in s.visited_urls
        THEN [r EXCEPT !.stack[1].i = @ + 1]
        ELSE [r EXCEPT !.stack[1].i = @ + 1,
                       !.pc = "call",
                       !.call = [url |-> l, path |-> f.path, depth |-> f.depth + 1]]

\* the rest of the model is left alone by a path search
SearchOnly ==
    UNCHANGED <<pool, poolLock, browserPool, cache, api, env, task, hist, old>>

\* PathFinder.find_path (lines 247-261): state cleared, the search called on
\* start_url
FindPath ==
    /\ search.pc = "new"
    /\ search.mode = "find_path"
    /\ search' = [search EXCEPT !.pc = "call"]
    /\ SearchOnly

\* event_stream of GET /autonomous-path is run for its first event (api/main.py,
\* lines 262-267, 311): its locals are set and _search called on start_url
AutonomousPath ==
    /\ search.pc = "new"
    /\ search.mode = "stream"
    /\ search' = [search EXCEPT !.pc = "call"]
    /\ SearchOnly

\* a call of _search_from_url runs up to its loop or its return
SearchFromUrl ==
    /\ search.pc = "call"
    /\ search.mode = "find_path"
    /\ \E page \in SiteAnswers(search, search.call.url) :
         search' = SearchFromUrlBody(search, page)
    /\ SearchOnly

\* a call of _search of event_stream runs up to its return or up to its visit
\* event, where the generator waits for its consumer
Search ==
    /\ search.pc = "call"
    /\ search.mode = "stream"
    /\ search' = SearchBody(search)
    /\ SearchOnly

\* the consumer asks for the event after a visit event
SearchVisited ==
    /\ search.pc = "visit"
    /\ \E page \in SiteAnswers(search, search.call.url) :
         search' = SearchVisitedBody(search, page)
    /\ SearchOnly

\* the consumer asks for the event after a found or an error event: the call
\* of _search returns (api/main.py, lines 285, 308)
SearchResumed ==
    /\ search.pc \in {"found", "error"}
    /\ search' = SearchReturns(search)
    /\ SearchOnly

\* the consumer asks for the event after not_found: there is none
EventStreamEnds ==
    /\ search.pc = "not_found"
    /\ search' = SearchOver(search)
    /\ SearchOnly

SearchLoop ==
    /\ search.pc = "loop"
    /\ \E l \in LinkAt(search, Head(search.stack).url, Head(search.stack).i) :
         search' = SearchLoopBody(search, l)
    /\ SearchOnly

\* a PathFinder(start_url, end_url, max_depth) is constructed, or
\* /autonomous-path is requested with the same parameters
InitPath ==
    /\ pool = NewPool
    /\ poolLock = NewLock
    /\ browserPool = FALSE
    /\ cache = <<>>
    /\ api = NewApi(MaxCacheSize)
    /\ env = NewEnv(TRUE)
    /\ task = [p \in Procs |-> NewTask]
    /\ hist = NewHist
    /\ search \in {PathFinder(m, 1, e, d) :
                      m \in {"find_path", "stream"}, e \in {1, 2}, d \in 0..MaxDepth}
    /\ old = <<>>

NextPath ==
    \/ FindPath
    \/ AutonomousPath
    \/ SearchFromUrl
    \/ Search
    \/ SearchVisited
    \/ SearchResumed
    \/ EventStreamEnds
    \/ SearchLoop

SpecPath == InitPath /\ [][NextPath]_vars

\* the search is a sequential program: it keeps running until it has
\* returned, the events of the stream being read to the last
SpecPathFair == SpecPath /\ WF_vars(NextPath)

\* ------------------------------------------------------------ the renderers
\* ScreenshotAPI._take_screenshot_with_browser (lines 623-663) and
\* WebsiteScreenshotService.take_screenshot (lines 319-406), each called on a
\* browser that is running, step by step
Renderers == {"with_browser", "take_screenshot"}

\* what the try and except clauses of renderer r come to for key k and options
\* o: the bytes of page.screenshot(); on a failure the placeholder, which
\* _generate_placeholder (lines 656-658, 712-741) needs PIL for and
\* _generate_placeholder_sync (lines 395-398, 482-530) always gives
RenderResult(r, failed, pil, k, o) ==
    IF ~failed THEN Shot(k, o)
    ELSE IF r = "take_screenshot" \/ pil THEN Placeholder(k)
    ELSE Failure

\* what the renderer ends with when its finally clause has called page.close():
\* the exception of page.close() is caught and logged (lines 659-663, 402-406)
AfterClose_Unguarded(result, closeRaised) == IF closeRaised THEN Failure ELSE result
AfterClose(result, closeRaised) == result

\* the renderer is called
RenderCall(p) ==
    /\ task[p].pc = "idle"
    /\ hist.calls < MaxShots
    /\ \E r \in Renderers, k \in Keys, o \in Opts :
         Apply(p, [StartCall(p, "render") EXCEPT !.t.renderer = r,
                                                 !.t.key = k,
                                                 !.t.opts = o,
                                                 !.t.pc = "rn_page"])

\* browser.new_page() returns, or raises outside the try (lines 627, 355)
RenderNewPage(p) ==
    /\ Suspended(p, "rn_page")
    /\ \E ok \in BOOLEAN :
         Apply(p, IF ok THEN [World(p) EXCEPT !.t.page = "open", !.t.pc = "rn_try"]
                  ELSE [World(p) EXCEPT !.t.out = Failure, !.t.pc = "idle"])

\* the try clause ends: the page is captured, or something raises and the
\* except clause makes the placeholder (lines 629-658, 357-401)
RenderTry(p) ==
    /\ Suspended(p, "rn_try")
    /\ \E outcome \in PageOutcomes(p) :
         Apply(p, [World(p) EXCEPT
                      !.t.rendered = TRUE,
                      !.t.renders = @ + 1,
                      !.t.failed = (outcome = "error"),
                      !.t.shot = RenderResult(task[p].renderer, outcome = "error",
                                              env.pil, task[p].key, task[p].opts),
                      !.t.pc = "rn_close"])

\* the finally clause: page.close() returns or raises, and the renderer ends
\* (lines 659-663, 402-406)
RenderClose(p) ==
    /\ Suspended(p, "rn_close")
    /\ \E raised \in BOOLEAN :
         Apply(p, [World(p) EXCEPT
                      !.t.page = IF raised THEN "close_raised" ELSE "closed",
                      !.t.out = AfterClose(task[p].shot, raised),
                      !.t.pc = "idle"])

\* PIL is installed or not, and the URLs of some keys do not load
InitRender ==
    /\ pool = NewPool
    /\ poolLock = NewLock
    /\ browserPool = FALSE
    /\ cache = <<>>
    /\ api = NewApi(MaxCacheSize)
    /\ env \in {[NewEnv(b) EXCEPT !.malformed = m] : b \in BOOLEAN, m \in SUBSET Keys}
    /\ task = [p \in Procs |-> NewTask]
    /\ hist = NewHist
    /\ search = NoSearch
    /\ old = <<>>

\* one task calling the renderers, one call after the other
NextRender ==
    \/ RenderCall(1)
    \/ RenderNewPage(1)
    \/ RenderTry(1)
    \/ RenderClose(1)

SpecRender == InitRender /\ [][NextRender]_vars

\* --------------------------- actions: every caller of the two locks together
\* await api.get_screenshot(url, use_cache=False) by a task that also calls
\* the module's functions
MixGetScreenshot(p) ==
    /\ CanCallGlobal(p)
    /\ Apply(p, GetScreenshotEnter(GetScreenshotCall(p, 1, FALSE, 1), p))

\* GET /health (api/main.py, lines 317-334): await
\* get_browser_pool(screenshot_pool_size), then pool.health_check()
CallHealthCheck(p) ==
    /\ CanCallGlobal(p)
    /\ Apply(p, GetBrowserPoolEnter(
                    [StartCall(p, "health_check") EXCEPT !.t.size = PoolSize], p))

\* the step task p takes next when it is in a call; return_browser is given
\* browsers of the pool only, which it never has to close for want of room
Continue(p) ==
    \/ GetBrowserPoolWake(p)
    \/ ShutdownBrowserPoolWake(p)
    \/ InitializeWake(p)
    \/ InitializeStart(p)
    \/ InitializeLaunch(p)
    \/ InitializeFallback(p)
    \/ GetBrowserWake(p)
    \/ TakeScreenshotWithBrowser(p)
    \/ FallbackService(p)
    \/ ReturnBrowserWake(p)
    \/ ReturnBrowserClosedShutdown(p)
    \/ ShutdownWake(p)
    \/ ShutdownClosed(p)
    \/ ShutdownStopped(p)

\* tasks calling get_screenshot, get_browser_pool, shutdown_browser_pool and
\* GET /health
NextMix ==
    \E p \in Procs :
        \/ MixGetScreenshot(p)
        \/ CallGetBrowserPool(p)
        \/ CallShutdownBrowserPool(p)
        \/ CallHealthCheck(p)
        \/ Continue(p)

SpecMix == InitGlobal /\ [][NextMix]_vars

\* some task in a call takes its next step
Steps == \E p \in Clients : Continue(p)

\* the event loop runs a task that is ready, and every awaited browser
\* operation ends; the tasks make a bounded number of calls, so that no task
\* is passed over for ever
SpecMixFair == SpecMix /\ WF_vars(Steps)
\* ---------- actions: the ScreenshotAPI of website_screenshot_service.py
\* (the module src/python/main.py and test_screenshot_service.py import): it
\* has no pool and keeps one WebsiteScreenshotService of its own, which it
\* starts once and never stops (lines 261-304 of that file)
\* the except clause (lines 302-304): _generate_placeholder draws with PIL
LegacyExcept(w, p) ==
    GetScreenshotReturns(
        [w EXCEPT !.t.out = IF w.env.pil THEN Placeholder(w.t.key) ELSE Failure], p)

\* start() raises: inside take_screenshot, which get_screenshot calls in its
\* try; or at line 290, before the try, and get_screenshot raises
LegacyStartRaised(w, p) ==
    IF w.t.site = "take_screenshot" THEN LegacyExcept(w, p)
    ELSE GetScreenshotReturns([w EXCEPT !.t.out = Failure], p)

\* lines 297-300: the screenshot is cached and returned
LegacyStore(w, p) ==
    GetScreenshotReturns(
        [w EXCEPT !.cache = IF w.t.useCache
                            THEN StoreCache(@, w.t.key, w.t.shot,
                                            w.api.max_cache_size, w.env.io)
                            ELSE @,
                  !.t.stored = w.t.useCache,
                  !.t.out = w.t.shot], p)

\* service.take_screenshot from its first line (lines 119-122): start() when
\* the service has no browser, then browser.new_page()
LegacyTakeScreenshot(w, p) ==
    IF w.api.service.browser THEN At(w, "leg_page")
    ELSE At([w EXCEPT !.t.site = "take_screenshot"], "leg_start")

\* get_screenshot from its first line (lines 282-293): the cache is looked
\* up, an empty file being a miss; self.service is made and started when there
\* is none
LegacyEnter(w, p) ==
    IF w.t.useCache /\ ReadCache(w.cache, w.t.key, w.env.io) \notin {NoData, Empty}
    THEN GetScreenshotReturns(
             [w EXCEPT !.t.out = ReadCache(w.cache, w.t.key, w.env.io)], p)
    ELSE IF ~w.api.made
    THEN At([w EXCEPT !.api.made = TRUE, !.t.site = "get_screenshot"], "leg_start")
    ELSE LegacyTakeScreenshot(w, p)

\* await api.get_screenshot(url, width=.., height=.., use_cache=uc, ..) on
\* the ScreenshotAPI of website_screenshot_service.py
\* (test_screenshot_service.py, lines 50-77)
LegacyGetScreenshot(p) ==
    /\ task[p].pc = "idle"
    /\ hist.calls < MaxShots
    /\ \E k \in Keys, uc \in BOOLEAN, o \in Opts :
         Apply(p, LegacyEnter([GetScreenshotCall(p, k, uc, o) EXCEPT
                                  !.t.module = "legacy"], p))

\* start() (lines 58-61): async_playwright().start() returns and
\* self.playwright is set, or raises
LegacyStart(p) ==
    /\ Suspended(p, "leg_start")
    /\ \E ok \in BOOLEAN :
         Apply(p, IF ok THEN [World(p) EXCEPT !.api.service.playwright = TRUE,
                                              !.t.pc = "leg_launch"]
                  ELSE LegacyStartRaised(World(p), p))

\* start() (lines 62-74): playwright.chromium.launch() returns, self.browser
\* is set and take_screenshot awaits browser.new_page(); or it raises
LegacyLaunch(p) ==
    /\ Suspended(p, "leg_launch")
    /\ \E ok \in BOOLEAN :
         Apply(p, IF ok THEN [World(p) EXCEPT !.api.service.browser = TRUE,
                                              !.t.pc = "leg_page"]
                  ELSE LegacyStartRaised(World(p), p))

\* take_screenshot: browser.new_page() returns, or raises (line 122)
LegacyNewPage(p) ==
    /\ Suspended(p, "leg_page")
    /\ \E ok \in BOOLEAN :
         Apply(p, IF ok THEN At(World(p), "leg_render")
                  ELSE LegacyExcept([World(p) EXCEPT !.t.rendered = TRUE,
                                                     !.t.renders = @ + 1,
                                                     !.t.failed = TRUE], p))

\* take_screenshot from its try on (lines 124-166): the page is captured or
\* fails, and page.close() returns or raises
LegacyRender(p) ==
    /\ Suspended(p, "leg_render")
    /\ \E outcome \in PageOutcomes(p), closeRaised \in BOOLEAN :
         LET shot == TakeScreenshotResult("legacy", outcome = "error", closeRaised,
                                         task[p].key, task[p].opts)
             w == [World(p) EXCEPT !.t.rendered = TRUE,
                                   !.t.renders = @ + 1,
                                   !.t.failed = (outcome = "error"),
                                   !.t.shot = shot]
         IN  Apply(p, IF shot = Failure THEN LegacyExcept(w, p)
                      ELSE LegacyStore(w, p))

\* one caller of that ScreenshotAPI
NextLegacy ==
    \/ LegacyGetScreenshot(1)
    \/ LegacyStart(1)
    \/ LegacyLaunch(1)
    \/ LegacyNewPage(1)
    \/ LegacyRender(1)

SpecLegacy == InitSeq /\ [][NextLegacy]_vars

\* ------------------------------------------------------------------ claims
\* task p makes a call in this step
Begins(p) == hist'.calls = hist.calls + 1 /\ hist'.last = p

\* browsers the pool itself launched
PoolLaunched == env.launched - Cardinality(hist.foreign)

Distinct(s) == \A j, k \in 1..Len(s) : j # k => s[j] # s[k]

Min(a, b) == IF a < b THEN a ELSE b

\* the browsers task p has checked out: those its caller holds, the one
\* get_screenshot holds, and the one it is giving back while return_browser
\* has not yet disposed of it
CheckedOut(p) ==
    task[p].held
        \cup (IF task[p].browser # 0 THEN {task[p].browser} ELSE {})
        \cup (IF task[p].pc \in {"rb_wait", "rb_close_full", "rb_close_sd"}
              THEN {task[p].arg} ELSE {})

\* C1: under every interleaving of get_screenshot, get_browser and
\* return_browser calls on the module's pool, no browser is checked out by two
\* tasks at once, and no checked-out browser is in the free list.
C1_NoDoubleIssue ==
    \A p \in Procs :
        /\ CheckedOut(p) \cap Range(pool.browsers) = {}
        /\ \A q \in Procs \ {p} : CheckedOut(p) \cap CheckedOut(q) = {}

C1_Witness ==
    \E p, q \in Procs :
        /\ p # q
        /\ task[p].op = "get_screenshot" /\ task[p].pc = "with_browser"
        /\ task[p].browser # 0
        /\ task[q].op = "get_browser" /\ task[q].held # {}
        /\ pool.browsers = <<>>

\* C2: in every reachable state the free list holds at most pool_size browsers.
C2_FreeListBounded == Len(pool.browsers) <= PoolSize

\* C3 as stated: on an initialized pool (never shut down), once pool_size + 1
\* get_browser calls have returned before any return_browser, exactly pool_size
\* of them returned a browser, all distinct.
C3_Original ==
    (pool.initialized /\ ~pool.shutdown /\ hist.returnCalls = 0
         /\ hist.getsDone >= PoolSize + 1)
        => (Len(hist.issued) = PoolSize /\ Distinct(hist.issued))

\* C3 amended: the same on a pool in which every slot's launch succeeded; the
\* first pool_size calls to return get the browsers, every later one gets None.
C3_Exhaustion ==
    (pool.initialized /\ ~pool.shutdown /\ hist.returnCalls = 0
         /\ PoolLaunched = PoolSize)
        => (Len(hist.issued) = Min(hist.getsDone, PoolSize) /\ Distinct(hist.issued))

C3_Witness ==
    /\ pool.initialized /\ ~pool.shutdown /\ hist.returnCalls = 0
    /\ PoolLaunched = PoolSize
    /\ hist.getsDone = PoolSize + 1
    /\ Len(hist.issued) = PoolSize
    /\ \E p \in Procs :
         task[p].op = "get_browser" /\ task[p].pc = "idle" /\ task[p].ret = NoBrowser

\* the step in which task p's return_browser call, past its shutdown check,
\* holds the lock and looks at the free list
ReturnInspects(p) ==
    /\ task'[p].op = "return_browser"
    /\ Begins(p) \/ task[p].pc = "rb_wait"
    /\ task'[p].pc \in {"idle", "rb_close_full"}

\* C4: return_browser on a pool that is not shut down: with pool_size browsers
\* in the free list it closes the given browser and leaves the free list as it
\* is; with fewer it appends the browser and does not close it.
C4_ReturnAtCapacity ==
    [][\A p \in Procs :
        (ReturnInspects(p) /\ ~pool.shutdown) =>
            IF Len(pool.browsers) >= PoolSize
            THEN /\ task'[p].arg \in env'.closeCalls
                 /\ pool'.browsers = pool.browsers
            ELSE /\ pool'.browsers = Append(pool.browsers, task'[p].arg)
                 /\ task'[p].arg \notin env'.closeCalls
      ]_vars

C4_Witness ==
    \E p \in Procs :
        /\ task[p].pc = "rb_close_full"
        /\ ~pool.shutdown
        /\ Len(pool.browsers) = PoolSize
        /\ task[p].arg \in env.closeCalls

\* task p has ended a get_browser call that it made after a shutdown() had
\* returned
GotAfterShutdown(p) ==
    task[p].op = "get_browser" /\ task[p].sdRetAtCall /\ task[p].pc = "idle"

\* C5: a get_browser call made after a shutdown() has returned on the pool
\* returns an empty result: it returns None, never a handle, and does not
\* raise.
C5_NoBrowserAfterShutdown ==
    \A p \in Procs : GotAfterShutdown(p) => task[p].ret = NoBrowser

\* the same without the return: the call never gives a handle
NoHandleAfterShutdown ==
    \A p \in Procs : GotAfterShutdown(p) => task[p].ret \in {NoBrowser, Raised}

\* C6: a browser given to a return_browser call made after shutdown() was called
\* has had close() called on it and is never in the free list.
C6_ReturnAfterShutdownCloses ==
    /\ hist.retAfterSd \subseteq env.closeCalls
    /\ hist.retAfterSd \cap Range(pool.browsers) = {}

C6_Witness ==
    \E p \in Procs :
        /\ task[p].op = "return_browser" /\ task[p].sdAtCall /\ task[p].pc = "idle"
        /\ task[p].arg \in hist.retAfterSd \cap Range(hist.issued)

\* C7: shutdown() sets the flag in its first block, and no get_browser call
\* returns a browser once the flag is set, a call that was waiting for the lock
\* included.
C7_NoIssueOnceFlagSet ==
    [][\A p \in Procs :
        /\ (Begins(p) /\ task'[p].op = "shutdown") => pool'.shutdown
        /\ (task'[p].op = "get_browser" /\ task'[p].pc = "idle"
              /\ task'[p].ret.kind = "handle"
              /\ (Begins(p) \/ task[p].pc # "idle"))
            => ~pool.shutdown
      ]_vars

\* C8: a shutdown() call made when the flag is already set returns at once,
\* calls no close() and no stop(), and leaves the pool as it is.
C8_ShutdownIdempotent ==
    [][\A p \in Procs :
        (Begins(p) /\ task'[p].op = "shutdown" /\ pool.shutdown) =>
            /\ task'[p].pc = "idle"
            /\ pool' = pool
            /\ env'.closeCalls = env.closeCalls
            /\ env'.pwStopCalls = env.pwStopCalls
      ]_vars

C8_Witness ==
    \E p \in Procs :
        /\ task[p].op = "shutdown" /\ task[p].sdAtCall /\ task[p].pc = "idle"
        /\ env.pwStopCalls = 1
        /\ env.closeCalls # {}

\* the step in which a shutdown() call that found the flag clear returns
ShutdownReturns(p) ==
    /\ task'[p].op = "shutdown"
    /\ ~task'[p].sdAtCall
    /\ Begins(p) \/ task[p].pc # "idle"
    /\ task'[p].pc = "idle"

\* C9: when the shutdown() that drained the free list returns, close() has been
\* called on every drained browser, whether or not a close() raised, stop() has
\* been called on the runtime if there is one, and the free list is empty.
C9_ShutdownClosesAll ==
    [][\A p \in Procs :
        ShutdownReturns(p) =>
            /\ Range(task'[p].drained) \subseteq env'.closeCalls
            /\ pool'.playwright => env'.pwStopCalls >= 1
            /\ pool'.browsers = <<>>
      ]_vars

C9_Witness ==
    \E p \in Procs :
        /\ task[p].op = "shutdown" /\ ~task[p].sdAtCall /\ task[p].pc = "idle"
        /\ Len(task[p].drained) >= 2
        /\ task[p].drained[1] \in env.closeRaised
        /\ Range(task[p].drained) \subseteq env.closeCalls
        /\ env.pwStopCalls = 1

\* C10: a get_browser call that finds the free list empty when it looks at it
\* has returned None in that same block: it is never left waiting.
C10_NeverWaitsForRelease ==
    \A p \in Procs :
        (task[p].op = "get_browser" /\ task[p].seen = 0)
            => (task[p].pc = "idle" /\ task[p].ret = NoBrowser)

C10_Witness ==
    \E p \in Procs :
        /\ task[p].op = "get_browser" /\ task[p].seen = 0 /\ task[p].pc = "idle"
        /\ pool.initialized /\ ~pool.shutdown
        /\ \E q \in Procs : task[q].held \cap Range(hist.issued) # {}


\* ------------------------------------------------- claims: get_screenshot
\* the last call of task p was get_screenshot, and it has returned
ShotReturned(p) == task[p].op = "get_screenshot" /\ task[p].pc = "idle"

\* in this step task p, whose last call was a get_screenshot with
\* use_cache=true that has returned bytes, calls get_screenshot again with
\* use_cache=true for the same (url, width, height)
Repeats(p) ==
    /\ Begins(p)
    /\ ShotReturned(p)
    /\ task[p].useCache
    /\ task[p].out.kind # "raised"
    /\ task'[p].op = "get_screenshot"
    /\ task'[p].useCache
    /\ task'[p].key = task[p].key

\* the call task p makes in this step returns in this step what the call
\* before returned, without rendering and without going to the pool
SameFromCache(p) ==
    /\ task'[p].pc = "idle"
    /\ task'[p].out = task[p].out
    /\ ~task'[p].rendered
    /\ ~task'[p].acquired

\* C11 as stated: of two consecutive get_screenshot calls with use_cache=true
\* for the same (url, width, height), the second returns the bytes of the
\* first and neither renders nor goes to the pool.
C11_Original == [][\A p \in Procs : Repeats(p) => SameFromCache(p)]_vars

\* C11: of two consecutive get_screenshot calls with use_cache=true for the
\* same (url, width, height), the first of which ended by storing its result
\* in the cache (it did not end in the except clause), the second returns the
\* bytes of the first and neither renders nor goes to the pool.
C11_RepeatIsServedFromCache ==
    [][\A p \in Procs : Repeats(p) /\ task[p].stored => SameFromCache(p)]_vars

\* the second of two calls has been served from the cache
C11_Witness ==
    /\ hist.calls = 2
    /\ ShotReturned(1)
    /\ task[1].useCache
    /\ ~task[1].acquired
    /\ task[1].out.kind = "shot"

\* C15: a get_screenshot call with use_cache=true whose key has a file in the
\* cache returns the bytes of that file at once, whatever quality, format and
\* full_page it asks for.
C15_HitIgnoresOptions ==
    [][\A p \in Procs :
         /\ Begins(p)
         /\ task'[p].op = "get_screenshot"
         /\ task'[p].useCache
         /\ GetCachedScreenshot(cache, task'[p].key) # NoData
         => /\ task'[p].pc = "idle"
            /\ task'[p].out = GetCachedScreenshot(cache, task'[p].key)]_vars

\* a call has been served the screenshot rendered with other options
C15_Witness ==
    /\ ShotReturned(1)
    /\ task[1].useCache
    /\ ~task[1].acquired
    /\ task[1].out.kind = "shot"
    /\ task[1].out.opts # task[1].opts

\* C16: no placeholder image is ever stored in the cache.
C16_NoPlaceholderCached ==
    \A i \in 1..Len(cache) : cache[i].data.kind # "placeholder"

\* C17: a get_screenshot call with use_cache=false goes to the pool even when
\* its key has a file in the cache, and none of its steps changes the cache.
C17_NoCacheUntouched ==
    [][\A p \in Procs :
         /\ task'[p] # task[p]
         /\ task'[p].op = "get_screenshot"
         /\ ~task'[p].useCache
         => /\ cache' = cache
            /\ Begins(p) => task'[p].acquired /\ task'[p].pc # "idle"]_vars

\* a call with use_cache=false has rendered the page of a key that has a file
C17_Witness ==
    \E p \in Procs :
        /\ ShotReturned(p)
        /\ ~task[p].useCache
        /\ task[p].rendered
        /\ task[p].out.kind = "shot"
        /\ GetCachedScreenshot(cache, task[p].key) # NoData

\* C18: get_screenshot never raises to its caller.
C18_NeverRaises ==
    \A p \in Procs : ShotReturned(p) => task[p].out.kind # "raised"

\* in this step the get_screenshot call of task p returns or raises
ShotEnds(p) ==
    /\ task[p].op = "get_screenshot"
    /\ task[p].pc # "idle"
    /\ task'[p].pc = "idle"

\* C19: when get_screenshot ends, the browser pool.get_browser() gave it has
\* been passed to return_browser exactly once, and is in the free list or has
\* had close() called on it.
C19_HandleReturnedOnce ==
    [][\A p \in Procs :
         ShotEnds(p) /\ task[p].got # 0
         => /\ task[p].returns + (hist'.returnCalls - hist.returnCalls) = 1
            /\ \/ task[p].got \in Range(pool'.browsers)
               \/ task[p].got \in env'.closeCalls]_vars

\* the only call made was a get_screenshot that got a browser and ended in
\* the except clause, and the browser is back in the free list
C19_Witness ==
    /\ hist.calls = 1
    /\ ShotReturned(1)
    /\ task[1].rendered
    /\ task[1].out.kind = "placeholder"
    /\ task[1].useCache /\ ~task[1].stored
    /\ hist.returnCalls = 1
    /\ env.launched >= 1
    /\ Len(pool.browsers) = env.launched

\* C20: when get_screenshot has ended, the service its fallback made is
\* stopped: its browser closed and its runtime stopped.
C20_FallbackServiceStopped ==
    \A p \in Procs : ShotReturned(p) => task[p].service = NoService

\* ---------------------------------------------------------- claims: the cache
\* in this step task p calls _cache_screenshot
Stores(p) == Begins(p) /\ task'[p].op = "_cache_screenshot"

\* the file of key k is in the cache c
Cached(c, k) == GetCachedScreenshot(c, k) # NoData

\* the key of every request, computed once
KeyOf == [u \in Urls, x \in Dims, y \in Dims |-> GetCacheKey(u, x, y)]

\* C12: two requests for the same url that differ in width or in height have
\* distinct cache keys, and storing the result of one does not make the
\* other a cache hit.
C12_DimensionsSeparateEntries ==
    [][Stores(1) =>
         \A u \in Urls, x \in Dims, y \in Dims :
           task'[1].key = KeyOf[u, x, y] =>
             \A x2 \in Dims, y2 \in Dims :
               <<x, y>> # <<x2, y2>> =>
                 /\ KeyOf[u, x, y] # KeyOf[u, x2, y2]
                 /\ ~Cached(cache, KeyOf[u, x2, y2]) => ~Cached(cache', KeyOf[u, x2, y2])]_vars

\* (url, 1, 11) has just been stored and (url, 11, 1) is not a hit
C12_Witness ==
    /\ task[1].op = "_cache_screenshot"
    /\ \E u \in Urls :
         /\ task[1].key = GetCacheKey(u, 1, 11)
         /\ Cached(cache, GetCacheKey(u, 1, 11))
         /\ ~Cached(cache, GetCacheKey(u, 11, 1))

\* C13: after every completed _cache_screenshot (the write and the sweep) the
\* cache holds at most max_cache_size files, whatever max_cache_size is and
\* however many files the cache held before.
C13_StoreKeepsLimit == [][Stores(1) => Len(cache') <= api.max_cache_size]_vars

\* in this step task p stores under a key that has no file, the cache
\* holding exactly max_cache_size files
StoresNewAtCapacity(p) ==
    /\ Stores(p)
    /\ ~Cached(cache, task'[p].key)
    /\ Len(cache) = api.max_cache_size

\* the step deletes the oldest file and no other, and the file stored by task
\* p is the newest
EvictsOldest(p) ==
    /\ cache # <<>>
    /\ cache' = Append(Tail(cache), [key |-> task'[p].key, data |-> task'[p].shot])

\* C14 as stated: storing under a new key when the cache holds exactly
\* max_cache_size files deletes exactly one file, the oldest, and keeps the
\* file just stored.
C14_Original == [][StoresNewAtCapacity(1) => EvictsOldest(1)]_vars

\* C14: with max_cache_size at least 1, storing under a new key when the cache
\* holds exactly max_cache_size files deletes exactly one file, the oldest,
\* and keeps the file just stored.
C14_EvictsOldestAtCapacity ==
    [][StoresNewAtCapacity(1) /\ api.max_cache_size >= 1 => EvictsOldest(1)]_vars

\* a store under a new key has found a cache of several files at capacity
\* and has left it without its oldest file, the others kept in their order
C14_Witness ==
    /\ task[1].op = "_cache_screenshot"
    /\ api.max_cache_size >= 2
    /\ Len(task[1].before) = api.max_cache_size
    /\ ~Cached(task[1].before, task[1].key)
    /\ cache = Append(Tail(task[1].before), [key |-> task[1].key, data |-> task[1].shot])

\* ------------------------------------------------- claims: the pool's mutex
\* where a task is suspended inside "async with self._lock"
LockedPcs == {"init_start", "init_launch", "init_fallback", "sd_close", "sd_stop",
              "rb_close_full"}

\* task p can be inside "async with self._lock" at some point of the step it
\* takes now: it is inside already, or release() has woken it, or the lock is
\* free for it to take
CanHold(p) ==
    \/ task[p].pc \in LockedPcs
    \/ p \in pool.lock.woken
    \/ LockFree(pool.lock)

\* the step is one of task p
StepOf(p) == task'[p] # task[p]

\* C29: every change of the free list, of _initialized and of _shutdown is
\* made by a task that holds the pool's lock.
C29_MutationsUnderLock ==
    [][\A p \in Procs :
         /\ StepOf(p)
         /\ <<pool.browsers, pool.initialized, pool.shutdown>>'
              # <<pool.browsers, pool.initialized, pool.shutdown>>
         => CanHold(p)]_vars

\* the same for the free list and _initialized alone
ListAndInitializedUnderLock ==
    [][\A p \in Procs :
         /\ StepOf(p)
         /\ <<pool.browsers, pool.initialized>>' # <<pool.browsers, pool.initialized>>
         => CanHold(p)]_vars

\* ---------------------------------------------- claims: the pool's browsers
\* the browsers the pool itself launched
PoolHandles == (1..env.launched) \ hist.foreign

\* how many times b is in the free list, plus how many tasks have it checked out
Holders(b) ==
    Cardinality({i \in 1..Len(pool.browsers) : pool.browsers[i] = b})
        + Cardinality({p \in Procs : b \in CheckedOut(p)})

\* every browser the pool launched is once in the free list or checked out by
\* one task, and close() has not been called on it
Accounted == \A b \in PoolHandles : Holders(b) = 1 /\ b \notin env.closeCalls

\* C26: while the pool is not shut down, every browser the pool launched is
\* either in the free list or checked out by exactly one caller, and has not
\* been closed; so with nothing checked out the free list holds them all.
C26_HandlesAccounted == ~pool.shutdown => Accounted

\* the same when every browser given to return_browser came from get_browser
AccountedWithoutForeign == ~pool.shutdown /\ hist.foreign = {} => Accounted

\* ------------------------------------------------- claims: the launch sequence
Launching(t) == t.pc \in {"init_launch", "init_fallback"}
\* the launch loop of initialize() moves from one attempt to the next: a primary attempt is followed by the fallback attempt of its slot or by the next slot, a fallback attempt by the next slot
OneAttemptEach(p) == Launching(task[p]) /\ Launching(task'[p]) => IF task'[p].pc = "init_fallback" THEN task[p].pc = "init_launch" /\ task'[p].slot = task[p].slot ELSE task'[p].slot = task[p].slot + 1
\* a step of the launch loop that is its last
LoopEnds(p) == StepOf(p) /\ Launching(task[p]) /\ ~Launching(task'[p])
Occurrences(s, b) == Cardinality({i \in 1..Len(s) : s[i] = b})
LoopKeeps(p) == (StepOf(p) => OneAttemptEach(p)) /\ (LoopEnds(p) => task'[p].ret # Raised /\ pool'.initialized)
\* C28: initialize() makes one primary and at most one fallback launch attempt per slot, launch failures do not make it raise, and when it returns _initialized is set and the free list holds exactly the browsers of the slots whose launch succeeded.
C28_LaunchPerSlot == [][\A p \in Procs : LoopKeeps(p) /\ (LoopEnds(p) /\ task[p].op = "initialize" => Len(pool'.browsers) = Cardinality(PoolHandles') /\ \A b \in PoolHandles' : Occurrences(pool'.browsers, b) = 1)]_vars
LaunchedAreListed == [][\A p \in Procs : LoopKeeps(p) /\ (LoopEnds(p) /\ task[p].op = "initialize" => \A b \in PoolHandles' : Occurrences(pool'.browsers, b) = 1)]_vars

\* ---------------------------------------------- claims: a single initialization
\* in this step an initialize() or get_browser() call of task p returns or raises to its caller
InitCallEnds(p) == task'[p].op \in {"initialize", "get_browser"} /\ (Begins(p) \/ task[p].pc # "idle") /\ task'[p].pc = "idle"
\* the runtime has been started at most once and at most pool_size browsers have been launched
LaunchedOnce == env.pwStarts <= 1 /\ Cardinality(PoolHandles) <= PoolSize
\* in this step task p calls initialize() on an initialized pool: the call returns at once and nothing is started or launched
LaterInitialize(p) == Begins(p) /\ task'[p].op = "initialize" /\ pool.initialized => task'[p].pc = "idle" /\ env' = env /\ pool' = pool
\* C27 as stated: every initialize() or get_browser() call, raising or not, leaves _initialized set.
C27_Original == [][LaunchedOnce' /\ \A p \in Procs : LaterInitialize(p) /\ (InitCallEnds(p) => pool'.initialized)]_vars
\* C27: with initialize() and get_browser() calls running concurrently, the runtime is started at most once, at most pool_size browsers are launched in total, every call that returns without raising leaves _initialized set, and initialize() on an initialized pool launches nothing.
C27_SingleLaunchSequence == [][LaunchedOnce' /\ \A p \in Procs : LaterInitialize(p) /\ (InitCallEnds(p) /\ task'[p].ret # Raised => pool'.initialized)]_vars
C27_Witness == \E p, q \in Procs : /\ p # q /\ pool.initialized /\ env.pwStarts = 1 /\ Cardinality(PoolHandles) = PoolSize /\ \A r \in {p, q} : task[r].op \in {"initialize", "get_browser"} /\ task[r].pc = "idle" /\ task[r].ret # Raised /\ task[p].slot = PoolSize - 1 /\ ~task[p].waited /\ task[q].waited

\* ------------------------------------------------ claims: the HTTP boundary
\* take_screenshot_get has answered task p's request, whose URL is malformed
AnsweredInvalid(p) == task[p].http /\ task[p].pc = "idle" /\ task[p].key \in env.malformed
\* C23: a request with invalid input is answered with an error, without the pool having been asked for a browser or a page rendered, and never with a placeholder image.
C23_InvalidInputRejected == \A p \in Procs : AnsweredInvalid(p) => task[p].resp.status = 400 /\ ~task[p].acquired /\ ~task[p].rendered /\ task[p].resp.body.kind # "placeholder"

\* ------------------------------------------------ claims: the bare renderer
\* service.take_screenshot of task p has ended, navigation or capture having failed
BareFailed(p) == task[p].op = "take_screenshot" /\ task[p].pc \in {"svc_stop", "svc_stopping", "idle"} /\ task[p].failed
\* C24: when navigation or capture fails, WebsiteScreenshotService.take_screenshot raises the exception to its caller and returns no placeholder.
C24_BareRendererReraises == \A p \in Procs : BareFailed(p) => task[p].shot = Failure
LegacyReraises == \A p \in Procs : BareFailed(p) /\ task[p].module = "legacy" => task[p].shot = Failure

\* ------------------------------------------- claims: the shape of get_screenshot
\* task p is in get_screenshot, or its last call was get_screenshot
InShot(p) == task[p].op = "get_screenshot"
\* get_screenshot asks the pool for a browser at most once, after a cache miss, and renders at most once, after it asked; it renders with the pooled browser when it got one and with a service of its own when it got none
OneAttempt(p) == /\ task[p].gets <= 1 /\ task[p].renders <= 1 /\ task[p].renders <= task[p].gets /\ task[p].gets <= (IF task[p].acquired THEN 1 ELSE 0) /\ (task[p].pc = "with_browser" => task[p].got # 0 /\ task[p].ret.kind = "handle" /\ task[p].renders = 0) /\ (InFallback(p) => task[p].got = 0 /\ task[p].ret.kind = "none" /\ task[p].renders = (IF task[p].pc \in {"fb_close", "fb_stop"} THEN 1 ELSE 0)) /\ (task[p].pc = "with_browser" \/ InFallback(p) => task[p].gets = 1)
\* C21: a get_screenshot call makes at most one pool acquisition and at most one render attempt, takes the transient path exactly when the acquisition returned no browser, and after a render failure returns a placeholder without rendering again.
C21_SinglePass == \A p \in Procs : InShot(p) => OneAttempt(p) /\ (task[p].pc = "idle" /\ task[p].failed => task[p].out.kind = "placeholder")
SinglePassOrRaise == \A p \in Procs : InShot(p) => OneAttempt(p) /\ (task[p].pc = "idle" /\ task[p].failed => task[p].out.kind \in {"placeholder", "raised"})

\* ------------------------------------------------ claims: the module's pool
\* in this step _browser_pool is given a new BrowserPool
PoolCreated == pool'.id # pool.id
\* in this step a pool that _browser_pool referred to is replaced by a new one
PoolReplaced == browserPool /\ PoolCreated
\* in this step the get_browser_pool call of task p returns a pool
PoolReturned(p) == task'[p].op = "get_browser_pool" /\ (Begins(p) \/ task[p].pc # "idle") /\ task'[p].pc = "idle" /\ task'[p].ret # Raised
\* the pool was shut down when _browser_pool ceased to refer to it: the flag was set, the free list drained and the pool's lock left
ShutDown(r) == r.shutdown /\ r.free = 0 /\ ~r.locked
\* C25: when get_browser_pool(n) finds a pool of another size, that pool is shut down before the new one is made, the pool returned has pool_size n and is not shut down, and every pool _browser_pool has ceased to refer to is shut down.
C25_PoolReplacedOnSizeChange ==
    [][/\ PoolReplaced => /\ pool'.pool_size # pool.pool_size
                          /\ \E r \in hist'.retired : r.id = pool.id
       /\ \A r \in hist'.retired : ShutDown(r) /\ (browserPool' => r.id # pool'.id)
       /\ \A p \in Procs : PoolReturned(p) => /\ browserPool'
                                              /\ task'[p].pret = pool'.id
                                              /\ pool'.pool_size = task'[p].size
                                              /\ ~pool'.shutdown]_vars
C25_Witness == \E p \in Procs : /\ task[p].op = "get_browser_pool" /\ task[p].pc = "idle" /\ task[p].pret = pool.id /\ task[p].fr = "initialize" /\ browserPool /\ ~pool.shutdown /\ pool.initialized /\ \E i \in 1..Len(hist.epoch) : hist.epoch[i].id = pool.id - 1 /\ hist.epoch[i].size # pool.pool_size /\ \E r \in hist.retired : r.id = pool.id - 1 /\ r.shutdown

\* in this step the get_browser_pool call of task p returns or raises
PoolCallEnds(p) == task'[p].op = "get_browser_pool" /\ (Begins(p) \/ task[p].pc # "idle") /\ task'[p].pc = "idle"
\* in this step the shutdown_browser_pool call of task p returns
PoolShutdownEnds(p) == task'[p].op = "shutdown_browser_pool" /\ (Begins(p) \/ task[p].pc # "idle") /\ task'[p].pc = "idle"
\* the calls that ended since _browser_pool was last None and returned a pool
Returned(e) == {i \in 1..Len(e) : ~e[i].raised}
\* shutdown_browser_pool leaves _browser_pool None; a pool made when _browser_pool is None is a new object, not shut down and not yet initialized
EmptiedAndFresh ==
    /\ \A p \in Procs : PoolShutdownEnds(p) => ~browserPool'
    /\ PoolCreated => /\ pool'.id = hist.created + 1
                      /\ ~pool'.shutdown /\ ~pool'.initialized /\ pool'.browsers = <<>>
    /\ ~browserPool /\ browserPool' => PoolCreated
\* C30 as stated: all calls of the same pool_size between two shutdown_browser_pool calls return the same pool, and every get_browser_pool call that makes a pool initializes it.
C30_Original ==
    [][/\ EmptiedAndFresh
       /\ \A i, j \in Returned(hist'.epoch) : hist'.epoch[i].size = hist'.epoch[j].size => hist'.epoch[i].id = hist'.epoch[j].id
       /\ \A p \in Procs : PoolCallEnds(p) /\ task'[p].fr = "initialize" => pool'.initialized]_vars
\* C30: between two shutdown_browser_pool calls, get_browser_pool calls of the same pool_size with no call of another pool_size between them are given the same pool, made once; after shutdown_browser_pool _browser_pool is None, and the next get_browser_pool call makes a new pool that is not shut down and returns it initialized, or raises.
C30_OnePoolPerEpoch ==
    [][/\ EmptiedAndFresh
       /\ \A i \in 1..(Len(hist'.epoch) - 1) : hist'.epoch[i].size = hist'.epoch[i + 1].size => hist'.epoch[i].id = hist'.epoch[i + 1].id
       /\ \A p \in Procs : PoolReturned(p) /\ task'[p].fr = "initialize" => pool'.initialized /\ ~pool'.shutdown /\ task'[p].pret = hist'.created]_vars
C30_Witness == \E p \in Procs : /\ task[p].op = "get_browser_pool" /\ task[p].pc = "idle" /\ task[p].fr = "initialize" /\ task[p].pret = pool.id /\ browserPool /\ pool.initialized /\ ~pool.shutdown /\ Len(hist.epoch) = 1 /\ \E r \in hist.retired : r.id = pool.id - 1 /\ r.pool_size = pool.pool_size

\* ------------------------------------------- claims: more requests than browsers
\* the tasks rendering with a browser of the pool
Pooled == {p \in Procs : task[p].pc = "with_browser"}
\* task p has made its get_screenshot call, which has not ended
InFlight(p) == task[p].op = "get_screenshot" /\ task[p].pc # "idle"
\* the tasks beyond the first pool_size never render with a browser of the pool: they are on the fallback path from their call to its end
BeyondPoolFallBack == \A p \in Procs : p > PoolSize => task[p].pc # "with_browser" /\ (InFlight(p) => InFallback(p)) /\ (ShotReturned(p) => task[p].gets = 1)
\* C22: with more get_screenshot calls gathered than pool_size, at most pool_size of them render with a browser of the pool at once, the calls beyond pool_size take the fallback path, and every call that ends returns bytes.
C22_ThirdRequestFallsBack == Cardinality(Pooled) <= PoolSize /\ BeyondPoolFallBack /\ \A p \in Procs : ShotReturned(p) => task[p].out.kind \in {"shot", "placeholder"}
GatheredOrRaise == Cardinality(Pooled) <= PoolSize /\ BeyondPoolFallBack /\ \A p \in Procs : ShotReturned(p) => task[p].out.kind \in {"shot", "placeholder", "raised"}

\* ------------------------------------------------ claims: POST /screenshot
\* task p's last request was a POST /screenshot with use_cache=false in its body
PostedNoCache(p) == task[p].post /\ task[p].asked = "false"
\* C40: a POST /screenshot request with use_cache=false reaches get_screenshot with use_cache false: it is not served from the cache and its result is not cached.
C40_UseCachePassedUnchanged == \A p \in Procs : PostedNoCache(p) => ~task[p].useCache /\ ~task[p].stored /\ (task[p].pc = "idle" => task[p].acquired)
GetPassesUseCache == \A p \in Procs : task[p].http /\ task[p].asked = "false" => ~task[p].useCache /\ ~task[p].stored /\ (task[p].pc = "idle" => task[p].acquired)

\* ------------------------------------------------ claims: the path search
\* the search has returned
SearchDone == search.pc = "done"
\* every URL was fetched at most once so far
FetchedOnce == \A u \in Sites : search.fetches[u] <= 1
\* every URL was marked visited at a depth below max_depth
VisitedBelowMaxDepth == \A v \in search.visits : v[2] < search.max_depth
\* the page of u was read and has a link to v
LinksTo(u, v) == u \in DOMAIN search.web /\ v \in Range(search.web[u].links)
\* C34: in one path search (find_path or the /autonomous-path stream) each URL is fetched at most once and no URL is visited at depth >= max_depth, and the search terminates, cycles among the links or not.
C34_SearchTerminates == [](FetchedOnce /\ VisitedBelowMaxDepth) /\ <>SearchDone
C34_Witness == SearchDone /\ LinksTo(1, 3) /\ LinksTo(3, 1) /\ search.fetches[1] = 1 /\ search.fetches[3] = 1 /\ search.max_depth = MaxDepth

\* path is a chain of links: it starts at start_url, ends at end_url, holds at most max_depth URLs, none twice, each a link of the page of the one before
IsPath(path) ==
    /\ Len(path) >= 1
    /\ path[1] = search.start_url
    /\ path[Len(path)] = search.end_url
    /\ Len(path) <= search.max_depth
    /\ \A i, j \in 1..Len(path) : path[i] = path[j] => i = j
    /\ \A i \in 1..(Len(path) - 1) : LinksTo(path[i], path[i + 1])
\* what the stream has yielded agrees with the result of the search
StreamAgrees ==
    IF search.result = NoPath
    THEN search.events.found = 0 /\ search.events.not_found = 1
    ELSE search.events.found = 1 /\ search.events.not_found = 0 /\ search.events.path = search.result
\* C35: a path returned by find_path, or carried by the stream's found event, starts at start_url, ends at end_url, has at most max_depth URLs, none repeated, each a link found on the page of the one before; when no path is found the result is None and the stream yields one not_found event.
C35_ReturnedPathIsAChain ==
    /\ search.events.found > 0 => IsPath(search.events.path)
    /\ SearchDone =>
        /\ search.result # NoPath => IsPath(search.result)
        /\ search.mode = "stream" => StreamAgrees
        /\ search.mode = "find_path" => search.events.found = 0 /\ search.events.not_found = 0
C35_Witness == SearchDone /\ search.mode = "stream" /\ Len(search.result) = 3 /\ search.events.error = 1

\* the URLs a chain of at most k URLs from start_url leads to, by the links read
RECURSIVE ReachWithin(_)
ReachWithin(k) ==
    IF k <= 0 THEN {}
    ELSE IF k = 1 THEN {search.start_url}
    ELSE LET r == ReachWithin(k - 1)
         IN  r \cup {v \in Sites : \E u \in r : LinksTo(u, v)}
\* no fetch of the search has failed
NoFetchFailed == \A u \in DOMAIN search.web : search.web[u].ok
\* C39: when no page fetch fails and end_url can be reached from start_url by a chain of links of at most max_depth URLs, find_path returns a path, not None.
C39_ReachableIsFound ==
    SearchDone /\ search.mode = "find_path" /\ NoFetchFailed /\ search.end_url \in ReachWithin(search.max_depth)
        => search.result # NoPath

\* ------------------------------------------------ claims: a pool shut down
\* the step launches a browser for the pool (lines 81-104 of initialize)
PoolLaunches ==
    \E p \in Procs :
        /\ task[p].pc \in {"init_launch", "init_fallback"}
        /\ task'[p] # task[p]
        /\ env'.launched > env.launched
\* no call of a pool method is in progress
NoCallRunning == \A p \in Procs : task[p].pc \in {"idle", "ret"}
\* C37: once shutdown() has been called on a pool, no browser is launched for it afterwards and its free list is empty whenever no operation is in progress, also when shutdown() ran before the pool was initialized.
C37_NothingAfterShutdown ==
    [][/\ pool.shutdown => ~PoolLaunches
       /\ pool'.shutdown /\ NoCallRunning' => pool'.browsers = <<>>]_vars
\* the same with the launches left out: the free list of a pool shut down is empty between calls
EmptyAfterShutdown == pool.shutdown /\ NoCallRunning => pool.browsers = <<>>
\* no browser is launched for a pool already shut down when initialize() began its launches
NoLaunchAfterShutdown == [][pool.shutdown => ~PoolLaunches]_vars

\* ------------------------------------------------ claims: a failed render
\* in this step a get_screenshot call of task p ends whose render on the pooled handle it got has failed
FailedShotEnds(p) == ShotEnds(p) /\ task[p].got # 0 /\ task'[p].failed
\* C38: when the render on a pooled handle fails and the pool is not shut down, the handle is in the free list when get_screenshot returns and close() has not been called on it.
C38_FailedRenderKeepsHandle ==
    [][\A p \in Procs :
         FailedShotEnds(p) /\ ~pool'.shutdown
         => /\ task[p].got \in Range(pool'.browsers)
            /\ task[p].got \notin env'.closeCalls]_vars
\* the same when return_browser was given no browser but those the pool issued
KeepsHandleWithoutForeign ==
    [][\A p \in Procs :
         FailedShotEnds(p) /\ ~pool'.shutdown /\ hist'.foreign = {}
         => /\ task[p].got \in Range(pool'.browsers)
            /\ task[p].got \notin env'.closeCalls]_vars
\* a get_screenshot call whose render on a pooled handle failed has ended with the handle in the free list
C38_Case == \E p \in Procs : ShotReturned(p) /\ task[p].failed /\ task[p].gets = 1 /\ task[p].renders = 1 /\ pool.browsers # <<>> /\ ~pool.shutdown

\* ------------------------------------------------ claims: the page of a render
\* in this step the render of task p, which had opened a page, returns or raises
RenderEnds(p) == task[p].op = "render" /\ task[p].page # "none" /\ task[p].pc # "idle" /\ task'[p].pc = "idle"
\* the render of task p is over and close() was called on the page it opened
PageClosed(p) == task[p].page \in {"closed", "close_raised"}
\* C31: a render that opened a page has called close() on it when it returns or raises, navigation and capture having succeeded or failed, and a failure of close() does not change what the render returns or raises.
C31_PageClosedWhateverHappens ==
    [][\A p \in Procs :
         RenderEnds(p)
         => /\ task'[p].page \in {"closed", "close_raised"}
            /\ task'[p].out = task[p].shot
            /\ task[p].rendered]_vars
C31_Witness == \E p \in Procs : task[p].op = "render" /\ task[p].pc = "idle" /\ task[p].page = "close_raised" /\ task[p].failed /\ task[p].renderer = "with_browser" /\ task[p].out = Placeholder(task[p].key)
\* no page is left open by a render that is over
NoPageLeftOpen == \A p \in Procs : task[p].op = "render" /\ task[p].pc = "idle" => task[p].page # "open"

\* ------------------------------------------------ claims: cache errors
\* every get_screenshot call that has ended has returned bytes, those it rendered itself when it did not find the key in the cache, and a call whose cache read fails goes on to render
CacheErrorsSwallowed ==
    \A p \in Procs :
        ShotReturned(p)
        => /\ task[p].out.kind \in {"shot", "placeholder"}
           /\ task[p].acquired /\ task[p].out.kind = "shot" => task[p].out = Shot(task[p].key, task[p].opts)
           /\ task[p].useCache /\ "read" \in env.io => task[p].acquired
\* C33: a cache read error is treated as a miss and a cache write or eviction-delete error is ignored: get_screenshot still returns the freshly rendered bytes and no cache error comes out of the cache operations.
C33_CacheErrorsNeverPropagate == env.io # {} => CacheErrorsSwallowed
\* the same when cache_file.exists() does not fail and no write leaves a part of the bytes in the file
ReadWriteErrorsSwallowed == env.io # {} /\ env.io \cap {"stat", "write_part"} = {} => CacheErrorsSwallowed
\* a second call has rendered again after the write of the first had failed and left an empty file
C33_Case == \E p \in Procs : ShotReturned(p) /\ task[p].useCache /\ task[p].rendered /\ ~task[p].failed /\ env.io = {"write"} /\ Len(cache) = 1 /\ cache[1].data = Empty /\ hist.calls = 2
\* a call has been served the part of the bytes an earlier failed write had left in the file
PartServed == \E p \in Procs : ShotReturned(p) /\ task[p].useCache /\ ~task[p].acquired /\ task[p].out.kind = "part"

\* ------------------------------------------------ claims: two requests for one key
\* the files cache_dir has for key k
FilesOf(c, k) == {i \in 1..Len(c) : c[i].key = k}
\* in this step task q calls get_screenshot with use_cache=true for a key no call has stored yet
CallsUncached(q) ==
    /\ Begins(q)
    /\ task'[q].op = "get_screenshot"
    /\ task'[q].useCache
    /\ FilesOf(cache, task'[q].key) = {}
\* in this step a get_screenshot call of task p ends that has stored what it returns
StoresAndEnds(p) == ShotEnds(p) /\ task'[p].stored
\* C32: two get_screenshot calls with use_cache=true for one key, both begun before either has stored, both miss the cache and each renders by itself; each store leaves one file for the key, holding the bytes of the call that stored last.
C32_BothMissLastWriteWins ==
    [][\A p \in Procs :
         /\ CallsUncached(p) => task'[p].acquired
         /\ ShotEnds(p) /\ task'[p].acquired /\ task'[p].out.kind = "shot"
            => task'[p].renders = 1 /\ task'[p].out = Shot(task'[p].key, task'[p].opts)
         /\ StoresAndEnds(p)
            => /\ Cardinality(FilesOf(cache', task'[p].key)) = 1
               /\ GetCachedScreenshot(cache', task'[p].key) = task'[p].out]_vars
\* two calls for one key have ended, each having missed the cache, rendered and stored, with different bytes
C32_Witness ==
    \E p, q \in Procs :
        /\ p # q
        /\ ShotReturned(p) /\ ShotReturned(q)
        /\ task[p].key = task[q].key
        /\ task[p].useCache /\ task[q].useCache
        /\ task[p].acquired /\ task[q].acquired
        /\ task[p].renders = 1 /\ task[q].renders = 1
        /\ task[p].stored /\ task[q].stored
        /\ task[p].out # task[q].out
        /\ hist.calls = 2
        /\ Cardinality(FilesOf(cache, task[p].key)) = 1

\* ------------------------------------------------ claims: the two locks
\* task p is in a call
InCall(p) == task[p].pc # "idle"
\* C36: whatever the interleaving of get_screenshot, get_browser_pool (of equal or different sizes), GET /health and shutdown_browser_pool calls, every call eventually returns or raises, when every browser operation ends: no call waits for ever for _pool_lock or for the _lock of a pool.
C36_EveryCallReturns == \A p \in Clients : InCall(p) ~> ~InCall(p)
\* a task inside "async with _pool_lock" that had to wait for the _lock of the pool it shuts down has been given it, and the call of the other task, which held that _lock, has returned
C36_Witness == \E p, q \in Clients : /\ p # q /\ task[p].site \in {"shutdown_browser_pool", "replace"} /\ Woken(p, "sd_wait", World(p).pool.lock) /\ ~LockFree(poolLock) /\ task[q].op = "get_screenshot" /\ ~InCall(q)
====
